---- MODULE Spec2Model ----
(***************************************************************************)
(* Model of the Tristogram colour-histogram engine                         *)
(* (src/tristogram/src/Tristogram.ts) and of the part of its React host    *)
(* (src/unnamed/part_001, TristogramVisualization) that drives the range   *)
(* filter.                                                                 *)
(*                                                                         *)
(* Conventions.                                                            *)
(*  - JavaScript arrays are 0-based; a sequence s models the array whose   *)
(*    element i is At(s, i) = s[i + 1].  Index VALUES stored in arrays     *)
(*    (filteredIndices) stay 0-based, as in the code.                      *)
(*  - A Float32Array element is a pair <<m, e>> standing for m / 2^e, in   *)
(*    lowest terms (m odd or e = 0); Fround rounds a quotient of integers  *)
(*    to the nearest single-precision value, ties to even.  Channel values *)
(*    0..255 held in `positions` are exact in single precision and are     *)
(*    kept as integers.                                                    *)
(*  - A threshold is NaN or an integer k standing for the number k / Den.  *)
(*  - A clustering radius epsilon is an integer, as the host's slider      *)
(*    gives it; distances are compared through their squares.  A centroid  *)
(*    coordinate is the fraction <<numerator, denominator>> in lowest      *)
(*    terms.  clusterCall holds one clustering call on the built instance: *)
(*    a call reads the instance only, so the calls a behaviour could make  *)
(*    after it reach no further state.                                     *)
(*  - dbscanRun holds the locals of one clustering run taken statement by *)
(*    statement (labels, the loop index, clusterId, the queue).           *)
(*  - In the host, a Tristogram instance is known by the raster it was     *)
(*    built from.  A pending timer holds the clustering call its callback  *)
(*    makes: the callback closes over the instance, the filtered data and  *)
(*    the two parameters of the render that scheduled it.  A cluster       *)
(*    result of the host is held as the call that returned it, and         *)
(*    ClusterResultOf gives its value; an instance and its arrays never    *)
(*    change, so the call determines the value.                            *)
(***************************************************************************)
EXTENDS Integers, Sequences, FiniteSets, TLC

\* ------------------------------------------------------------------ bounds
MaxPixels == 4
Den == 2
MaxTimers == 1

\* ------------------------------------------------------- program constants
ArrayDim == 256
SizeSpan == 19

\* Thresholds are never negative, so -1 is free to stand for not-a-number.
NaN == -1

\* RGBA byte quadruples the rasters are painted with: two colours that
\* differ in alpha only, colours that share channel values in different
\* channels, and colours that differ in a single low bit of one channel.
Palette == { <<255, 0, 0, 255>>, <<255, 0, 0, 128>>, <<0, 255, 0, 255>>, <<0, 1, 0, 255>> }

\* ---------------------------------------------------------------- helpers
At(s, i) == s[i + 1]

Range(s) == { s[k] : k \in 1..Len(s) }

RECURSIVE Pow2(_)
Pow2(e) == IF e = 0 THEN 1 ELSE 2 * Pow2(e - 1)

RECURSIVE SumSeq(_)
SumSeq(s) == IF s = <<>> THEN 0 ELSE Head(s) + SumSeq(Tail(s))

RECURSIVE Flatten(_)
Flatten(ss) == IF ss = <<>> THEN <<>> ELSE Head(ss) \o Flatten(Tail(ss))

\* ------------------------------------------------- 32-bit integer operators
\* a | b on non-negative 32-bit operands, bit by bit.
RECURSIVE BitOr(_, _)
BitOr(a, b) ==
  IF a = 0 THEN b
  ELSE IF b = 0 THEN a
  ELSE (IF (a % 2 = 1) \/ (b % 2 = 1) THEN 1 ELSE 0) + 2 * BitOr(a \div 2, b \div 2)

\* a & b on non-negative 32-bit operands, bit by bit.
RECURSIVE BitAnd(_, _)
BitAnd(a, b) ==
  IF a = 0 \/ b = 0 THEN 0
  ELSE (IF (a % 2 = 1) /\ (b % 2 = 1) THEN 1 ELSE 0) + 2 * BitAnd(a \div 2, b \div 2)

\* a << k and a >> k for a non-negative a small enough that bit 31 stays clear.
ShiftLeft(a, k) == a * Pow2(k)
ShiftRight(a, k) == a \div Pow2(k)

\* ---------------------------------------------------- single precision
\* Lowest-terms form of m / 2^e.
RECURSIVE Normalise(_, _)
Normalise(m, e) == IF e > 0 /\ m % 2 = 0 THEN Normalise(m \div 2, e - 1) ELSE <<m, e>>

\* The exponent e with 2^23 <= (p / q) * 2^e < 2^24, for 0 < p / q < 2^24.
RECURSIVE MantissaExp(_, _, _)
MantissaExp(p, q, e) == IF p * Pow2(e) >= 8388608 * q THEN e ELSE MantissaExp(p, q, e + 1)

\* The two non-finite results of a division by zero, outside the <<m, e>> range.
FloatInf == <<1, -1>>
FloatNaN == <<0, -1>>

\* Math.fround(p / q) for integers p >= 0, q >= 0 with p / q < 2^24;
\* p / 0 is Infinity and 0 / 0 is NaN, as in JavaScript.
Fround(p, q) ==
  IF q = 0 THEN (IF p = 0 THEN FloatNaN ELSE FloatInf)
  ELSE IF p = 0 THEN <<0, 0>>
  ELSE LET e == MantissaExp(p, q, 0)
           n == p * Pow2(e)
           m == n \div q
           r == n - m * q
           up == (2 * r > q) \/ (2 * r = q /\ m % 2 = 1)
       IN Normalise(IF up THEN m + 1 ELSE m, e)

FloatOne == <<1, 0>>

\* ------------------------------------------------------------ raster input
\* Tristogram.getPixel: the four bytes at (x + width * y) * 4.
getPixel(imageData, x, y) ==
  LET position == (x + imageData.width * y) * 4
  IN [ r |-> At(imageData.data, position),
       g |-> At(imageData.data, position + 1),
       b |-> At(imageData.data, position + 2),
       a |-> At(imageData.data, position + 3) ]

\* ScanOrder with the outer loop started at x = 1.
ScanOrder_FromOne(width, height) ==
  [ k \in 1..((IF width > 0 THEN width - 1 ELSE 0) * height) |->
      [ x |-> 1 + (k - 1) \div height, y |-> (k - 1) % height ] ]

\* ScanOrder with the two loop bounds exchanged: x < height, y < width.
ScanOrder_SwappedBounds(width, height) ==
  [ k \in 1..(width * height) |-> [ x |-> (k - 1) \div width, y |-> (k - 1) % width ] ]

\* The coordinates visited by  for x < width  for y < height , in visiting order.
ScanOrder(width, height) ==
  [ k \in 1..(width * height) |-> [ x |-> (k - 1) \div height, y |-> (k - 1) % height ] ]

\* ------------------------------------------------------------- colour keys
\* encodeRGB with the green channel shifted like the red one.
encodeRGB_ShiftBug(r, g, b) == BitOr(BitOr(ShiftLeft(r, 16), ShiftLeft(g, 16)), b)

encodeRGB(r, g, b) == BitOr(BitOr(ShiftLeft(r, 16), ShiftLeft(g, 8)), b)

\* decodeRGB without the 0xFF mask on the green channel.
decodeRGB_NoMask(encoded) ==
  << BitAnd(ShiftRight(encoded, 16), 255),
     ShiftRight(encoded, 8),
     BitAnd(encoded, 255) >>

decodeRGB(encoded) ==
  << BitAnd(ShiftRight(encoded, 16), 255),
     BitAnd(ShiftRight(encoded, 8), 255),
     BitAnd(encoded, 255) >>

\* --------------------------------------------------------- single-pass build
\* A JavaScript Map is a sequence of entries in insertion order; setting an
\* existing key keeps its place.
MapIndex(colorMap, key) ==
  IF \E k \in 1..Len(colorMap) : colorMap[k].key = key
  THEN CHOOSE k \in 1..Len(colorMap) : colorMap[k].key = key
  ELSE 0

\* The pixel loop with the running maximum compared before the increment.
RECURSIVE SinglePassLoop_StaleMax(_, _, _)
SinglePassLoop_StaleMax(pixelData, coords, acc) ==
  IF coords = <<>> THEN acc
  ELSE LET c == Head(coords)
           pixel == getPixel(pixelData, c.x, c.y)
           key == BitOr(BitOr(ShiftLeft(pixel.r, 16), ShiftLeft(pixel.g, 8)), pixel.b)
           k == MapIndex(acc.colorMap, key)
           old == IF k = 0 THEN [ key |-> key, count |-> 0, pixels |-> <<>> ] ELSE acc.colorMap[k]
           entry == [ old EXCEPT !.count = @ + 1, !.pixels = Append(@, c) ]
           newMap == IF k = 0 THEN Append(acc.colorMap, entry)
                     ELSE [ acc.colorMap EXCEPT ![k] = entry ]
           newMax == IF old.count > acc.maxValue THEN old.count ELSE acc.maxValue
       IN SinglePassLoop_StaleMax(pixelData, Tail(coords), [ colorMap |-> newMap, maxValue |-> newMax ])

\* The pixel loop of buildSinglePass over the coordinates still to visit.
RECURSIVE SinglePassLoop(_, _, _)
SinglePassLoop(pixelData, coords, acc) ==
  IF coords = <<>> THEN acc
  ELSE LET c == Head(coords)
           pixel == getPixel(pixelData, c.x, c.y)
           key == encodeRGB(pixel.r, pixel.g, pixel.b)
           k == MapIndex(acc.colorMap, key)
           old == IF k = 0 THEN [ key |-> key, count |-> 0, pixels |-> <<>> ] ELSE acc.colorMap[k]
           entry == [ old EXCEPT !.count = @ + 1, !.pixels = Append(@, c) ]
           newMap == IF k = 0 THEN Append(acc.colorMap, entry)
                     ELSE [ acc.colorMap EXCEPT ![k] = entry ]
           newMax == IF entry.count > acc.maxValue THEN entry.count ELSE acc.maxValue
       IN SinglePassLoop(pixelData, Tail(coords), [ colorMap |-> newMap, maxValue |-> newMax ])

\* buildArraysFromMap with the frequency divided by the number of bins
\* instead of the maximum count.
buildArraysFromMap_DivBySize(colorMap, maxV, mode) ==
  LET size == Len(colorMap)
  IN [ nonZeroCount |-> size,
       totalCount |-> 256 * 256 * 256,
       maxValue |-> maxV,
       positions |-> Flatten([ i \in 1..size |-> decodeRGB(colorMap[i].key) ]),
       values |-> [ i \in 1..size |-> colorMap[i].count ],
       pixelSources |-> [ i \in 1..size |-> colorMap[i].pixels ],
       colors |-> Flatten([ i \in 1..size |->
                     IF mode = "size" THEN << FloatOne, FloatOne, FloatOne, FloatOne >>
                     ELSE << FloatOne, FloatOne, FloatOne, Fround(colorMap[i].count, size) >> ]),
       sizes |-> [ i \in 1..size |->
                     IF mode = "size" THEN Fround(size + SizeSpan * colorMap[i].count, size)
                     ELSE FloatOne ] ]

\* buildArraysFromMap: the parallel arrays, one slot per map entry in map order.
buildArraysFromMap(colorMap, maxV, mode) ==
  LET size == Len(colorMap)
  IN [ nonZeroCount |-> size,
       totalCount |-> 256 * 256 * 256,
       maxValue |-> maxV,
       positions |-> Flatten([ i \in 1..size |-> decodeRGB(colorMap[i].key) ]),
       values |-> [ i \in 1..size |-> colorMap[i].count ],
       pixelSources |-> [ i \in 1..size |-> colorMap[i].pixels ],
       colors |-> Flatten([ i \in 1..size |->
                     IF mode = "size" THEN << FloatOne, FloatOne, FloatOne, FloatOne >>
                     ELSE << FloatOne, FloatOne, FloatOne, Fround(colorMap[i].count, maxV) >> ]),
       sizes |-> [ i \in 1..size |->
                     IF mode = "size" THEN Fround(maxV + SizeSpan * colorMap[i].count, maxV)
                     ELSE FloatOne ] ]

buildSinglePass(pixelData, mode) ==
  LET acc == SinglePassLoop(pixelData, ScanOrder(pixelData.width, pixelData.height),
                            [ colorMap |-> <<>>, maxValue |-> 0 ])
  IN buildArraysFromMap(acc.colorMap, acc.maxValue, mode)

\* -------------------------------------------------------------- legacy build
\* The dense array holds 256^3 cells.  Only cells whose three coordinates
\* occur as bytes of the raster can receive a pixel; every other cell stays
\* empty and only advances totalCount, so the model keeps the cells over the
\* byte values present and counts the rest.
Levels(pixelData) ==
  { pixelData.data[k] : k \in { j \in 1..Len(pixelData.data) : j % 4 # 0 } }

RECURSIVE Ascending(_)
Ascending(S) ==
  IF S = {} THEN <<>>
  ELSE LET least == CHOOSE v \in S : \A u \in S : v <= u
       IN <<least>> \o Ascending(S \ {least})

\* The cells reached by the nested r, g, b loops, in loop order.
CellOrder(levels) ==
  LET n == Len(levels)
  IN [ k \in 1..(n * n * n) |->
         << levels[((k - 1) \div (n * n)) + 1],
            levels[(((k - 1) \div n) % n) + 1],
            levels[((k - 1) % n) + 1] >> ]

\* The first pass: push every coordinate onto the cell of its pixel's colour.
RECURSIVE LegacyFill(_, _, _)
LegacyFill(pixelData, coords, tristogram) ==
  IF coords = <<>> THEN tristogram
  ELSE LET c == Head(coords)
           p == getPixel(pixelData, c.x, c.y)
       IN LegacyFill(pixelData, Tail(coords),
                     [ tristogram EXCEPT ![<<p.r, p.g, p.b>>] = Append(@, c) ])

\* The second pass over the cells still to visit.
RECURSIVE LegacyCollect(_, _, _)
LegacyCollect(tristogram, cells, acc) ==
  IF cells = <<>> THEN acc
  ELSE LET cell == Head(cells)
           count == Len(tristogram[cell])
       IN IF count > 0
          THEN LegacyCollect(tristogram, Tail(cells),
                 [ maxValue |-> IF count > acc.maxValue THEN count ELSE acc.maxValue,
                   nonZeroCount |-> acc.nonZeroCount + 1,
                   positions |-> acc.positions \o cell,
                   values |-> Append(acc.values, count),
                   pixelSources |-> Append(acc.pixelSources, tristogram[cell]) ])
          ELSE LegacyCollect(tristogram, Tail(cells), acc)

buildLegacy(pixelData, mode) ==
  LET tristogram == LegacyFill(pixelData, ScanOrder(pixelData.width, pixelData.height),
                               [ c \in Range(CellOrder(Ascending(Levels(pixelData)))) |-> <<>> ])
      acc == LegacyCollect(tristogram, CellOrder(Ascending(Levels(pixelData))),
                           [ maxValue |-> 0, nonZeroCount |-> 0, positions |-> <<>>,
                             values |-> <<>>, pixelSources |-> <<>> ])
      n == Len(acc.values)
  IN [ nonZeroCount |-> acc.nonZeroCount,
       totalCount |-> ArrayDim * ArrayDim * ArrayDim,
       maxValue |-> acc.maxValue,
       positions |-> acc.positions,
       values |-> acc.values,
       pixelSources |-> acc.pixelSources,
       colors |-> Flatten([ i \in 1..n |->
                     IF mode = "size" THEN << FloatOne, FloatOne, FloatOne, FloatOne >>
                     ELSE << FloatOne, FloatOne, FloatOne, Fround(acc.values[i], acc.maxValue) >> ]),
       sizes |-> [ i \in 1..n |->
                     IF mode = "size" THEN Fround(acc.maxValue + SizeSpan * acc.values[i], acc.maxValue)
                     ELSE FloatOne ] ]

\* ------------------------------------------------------------------- state
VARIABLES
  pixelData,          \* the raster handed to the constructor
  algorithm,          \* options.algorithm
  visualizationMode,  \* this.visualizationMode
  pc,                 \* "new" before the constructor has run, "built" after
  nonZeroCount, totalCount, maxValue,
  positions, values, colors, sizes, pixelSources,
  filterCall,         \* <<>> or <<[minThreshold, maxThreshold, result]>>: the last getFilteredData call
  tristogramInstance, \* host: whether the instance has been installed
  minThreshold, maxThreshold,   \* host: the two frequency controls
  imageData,          \* host: <<>> (null) or <<filtered data>>
  clusterCall,        \* <<>> or <<[entry, args, result]>>: the clustering call made on the instance
  dbscanRun,          \* <<>> or <<the locals of a clustering run in progress>>
  isClusteringRunning,   \* App: a clustering run was asked for and has not completed
  clusteringProgress,    \* App: the progress text
  appClusterResult,      \* App: <<>> (null) or <<the call that returned the cluster result>>
  clusterResult,         \* TristogramVisualization: <<>> (null) or <<the call that returned the cluster result>>
  timers              \* the clustering calls of the pending setTimeout callbacks, oldest first

histVars == << nonZeroCount, totalCount, maxValue, positions, values, colors, sizes, pixelSources >>
inputVars == << pixelData, algorithm, visualizationMode >>
hostVars == << tristogramInstance, minThreshold, maxThreshold, imageData >>
appVars == << isClusteringRunning, clusteringProgress, appClusterResult, clusterResult, timers >>
vars == << inputVars, pc, histVars, filterCall, hostVars, clusterCall, dbscanRun, appVars >>

\* Well-formed rasters: width * height pixels, four bytes each.
Shapes == { wh \in (0..MaxPixels) \X (0..MaxPixels) : wh[1] * wh[2] <= MaxPixels }

RastersOf(wh) ==
  { [ width |-> wh[1], height |-> wh[2], data |-> Flatten(px) ] :
      px \in [ 1..(wh[1] * wh[2]) -> Palette ] }

Rasters == UNION { RastersOf(wh) : wh \in Shapes }

Numbers == 0..Den
Thresholds == Numbers \cup {NaN}

\* The constructor's field initialisers, before either build runs.
Init ==
  /\ pixelData \in Rasters
  /\ algorithm \in { "single-pass", "legacy" }
  /\ visualizationMode \in { "opacity", "size" }
  /\ pc = "new"
  /\ nonZeroCount = 0
  /\ totalCount = 0
  /\ maxValue = 0
  /\ positions = <<>>
  /\ values = <<>>
  /\ colors = <<>>
  /\ sizes = <<>>
  /\ pixelSources = <<>>
  /\ filterCall = <<>>
  /\ tristogramInstance = FALSE
  /\ minThreshold = 0
  /\ maxThreshold = Den
  /\ imageData = <<>>
  /\ clusterCall = <<>>
  /\ dbscanRun = <<>>
  /\ isClusteringRunning = FALSE
  /\ clusteringProgress = ""
  /\ appClusterResult = <<>>
  /\ clusterResult = <<>>
  /\ timers = <<>>

\* The constructor body: build with the selected algorithm and set every field.
Constructor ==
  /\ pc = "new"
  /\ LET built == IF algorithm = "single-pass"
                  THEN buildSinglePass(pixelData, visualizationMode)
                  ELSE buildLegacy(pixelData, visualizationMode)
     IN /\ nonZeroCount' = built.nonZeroCount
        /\ totalCount' = built.totalCount
        /\ maxValue' = built.maxValue
        /\ positions' = built.positions
        /\ values' = built.values
        /\ colors' = built.colors
        /\ sizes' = built.sizes
        /\ pixelSources' = built.pixelSources
  /\ pc' = "built"
  /\ UNCHANGED inputVars

\* new Tristogram(pixelData, options), called directly.
Construct ==
  /\ Constructor
  /\ UNCHANGED << filterCall, hostVars, clusterCall, dbscanRun, appVars >>

\* ------------------------------------------------------------ range filter
\* Math.floor(threshold * this.maxValue); NaN propagates.
FloorScaled(threshold) ==
  IF threshold = NaN THEN NaN ELSE (threshold * maxValue) \div Den

\* The two comparisons made strict.
Geq_Strict(a, b) == a # NaN /\ b # NaN /\ a > b
Leq_Strict(a, b) == a # NaN /\ b # NaN /\ a < b

\* a >= b and a <= b on numbers; any comparison with NaN is false.
Geq(a, b) == a # NaN /\ b # NaN /\ a >= b
Leq(a, b) == a # NaN /\ b # NaN /\ a <= b

\* The selection loop putting each selected index in front of the earlier
\* ones.
RECURSIVE FilterLoop_Unshift(_, _, _, _)
FilterLoop_Unshift(i, minCount, maxCount, filteredIndices) ==
  IF i >= Len(values) THEN filteredIndices
  ELSE FilterLoop_Unshift(i + 1, minCount, maxCount,
         IF Geq(At(values, i), minCount) /\ Leq(At(values, i), maxCount)
         THEN << i >> \o filteredIndices
         ELSE filteredIndices)

\* The selection loop of getFilteredData from index i on.
RECURSIVE FilterLoop(_, _, _, _)
FilterLoop(i, minCount, maxCount, filteredIndices) ==
  IF i >= Len(values) THEN filteredIndices
  ELSE FilterLoop(i + 1, minCount, maxCount,
         IF Geq(At(values, i), minCount) /\ Leq(At(values, i), maxCount)
         THEN Append(filteredIndices, i)
         ELSE filteredIndices)

\* getFilteredData with maxCount computed from minThreshold.
getFilteredData_CopiedBound(minT, maxT) ==
  LET minCount == FloorScaled(minT)
      maxCount == FloorScaled(minT)
      filteredIndices == FilterLoop(0, minCount, maxCount, <<>>)
      count == Len(filteredIndices)
  IN [ positions |-> Flatten([ i \in 1..count |->
                       << At(positions, filteredIndices[i] * 3),
                          At(positions, filteredIndices[i] * 3 + 1),
                          At(positions, filteredIndices[i] * 3 + 2) >> ]),
       colors |-> Flatten([ i \in 1..count |->
                       << At(colors, filteredIndices[i] * 4),
                          At(colors, filteredIndices[i] * 4 + 1),
                          At(colors, filteredIndices[i] * 4 + 2),
                          At(colors, filteredIndices[i] * 4 + 3) >> ]),
       sizes |-> [ i \in 1..count |-> At(sizes, filteredIndices[i]) ],
       count |-> count,
       filteredIndices |-> filteredIndices ]

getFilteredData(minT, maxT) ==
  LET minCount == FloorScaled(minT)
      maxCount == FloorScaled(maxT)
      filteredIndices == FilterLoop(0, minCount, maxCount, <<>>)
      count == Len(filteredIndices)
  IN [ positions |-> Flatten([ i \in 1..count |->
                       << At(positions, filteredIndices[i] * 3),
                          At(positions, filteredIndices[i] * 3 + 1),
                          At(positions, filteredIndices[i] * 3 + 2) >> ]),
       colors |-> Flatten([ i \in 1..count |->
                       << At(colors, filteredIndices[i] * 4),
                          At(colors, filteredIndices[i] * 4 + 1),
                          At(colors, filteredIndices[i] * 4 + 2),
                          At(colors, filteredIndices[i] * 4 + 3) >> ]),
       sizes |-> [ i \in 1..count |-> At(sizes, filteredIndices[i]) ],
       count |-> count,
       filteredIndices |-> filteredIndices ]

\* As GetFilteredData, but compacting the instance's own arrays in place
\* instead of filling new ones.
GetFilteredData_InPlace ==
  /\ pc = "built"
  /\ \E minT \in Thresholds, maxT \in Thresholds :
       LET result == getFilteredData(minT, maxT) IN
       /\ filterCall' = << [ minThreshold |-> minT, maxThreshold |-> maxT,
                             result |-> result ] >>
       /\ positions' = result.positions
       /\ colors' = result.colors
       /\ sizes' = result.sizes
  /\ UNCHANGED << inputVars, pc, nonZeroCount, totalCount, maxValue, values,
                  pixelSources, hostVars, clusterCall, dbscanRun, appVars >>

\* A caller invokes getFilteredData on the built instance.
GetFilteredData ==
  /\ pc = "built"
  /\ \E minT \in Thresholds, maxT \in Thresholds :
       filterCall' = << [ minThreshold |-> minT, maxThreshold |-> maxT,
                          result |-> getFilteredData(minT, maxT) ] >>
  /\ UNCHANGED << inputVars, pc, histVars, hostVars, clusterCall, dbscanRun, appVars >>

\* Construction alone.
BuildNext == Construct

BuildSpec == Init /\ [][BuildNext]_vars

Next == Construct \/ GetFilteredData

Spec == Init /\ [][Next]_vars

\* -------------------------------------------------------------------- host
\* The image loader's callback: Tristogram.fromHTMLImage builds with the
\* default algorithm and the instance is installed in component state.
LoadImage ==
  /\ algorithm = "single-pass"
  /\ Constructor
  /\ tristogramInstance' = TRUE
  /\ UNCHANGED << filterCall, minThreshold, maxThreshold, imageData, clusterCall, dbscanRun, appVars >>

isNaN(x) == x = NaN
\* Math.min and Math.max return NaN when either argument is NaN.
MathMin(a, b) == IF isNaN(a) \/ isNaN(b) THEN NaN ELSE IF a <= b THEN a ELSE b
MathMax(a, b) == IF isNaN(a) \/ isNaN(b) THEN NaN ELSE IF a >= b THEN a ELSE b

\* The filter effect without the isNaN substitution.
FilterEffectData_NoNaNCheck(minT, maxT) ==
  LET min == MathMin(minT, maxT)
      max == MathMax(minT, maxT)
  IN getFilteredData(min, max)

\* The filter effect without the min / max exchange.
FilterEffectData_NoSwap(minT, maxT) ==
  LET minVal == IF isNaN(minT) THEN 0 ELSE minT
      maxVal == IF isNaN(maxT) THEN Den ELSE maxT
  IN getFilteredData(minVal, maxVal)

\* What the filter effect passes to setImageData for control values minT, maxT.
FilterEffectData(minT, maxT) ==
  LET minVal == IF isNaN(minT) THEN 0 ELSE minT
      maxVal == IF isNaN(maxT) THEN Den ELSE maxT
      min == MathMin(minVal, maxVal)
      max == MathMax(minVal, maxVal)
  IN getFilteredData(min, max)

\* A render commit with the frequency controls at minT, maxT: React runs the
\* filter effect in that commit, before any other handler.
FilterEffect ==
  /\ tristogramInstance
  /\ \E minT \in Thresholds, maxT \in Thresholds :
       /\ minThreshold' = minT
       /\ maxThreshold' = maxT
       /\ imageData' = << FilterEffectData(minT, maxT) >>
  /\ UNCHANGED << inputVars, pc, histVars, filterCall, tristogramInstance, clusterCall, dbscanRun, appVars >>

HostInit == Init /\ algorithm = "single-pass"

HostNext == LoadImage \/ FilterEffect

HostSpec == HostInit /\ [][HostNext]_vars

\* -------------------------------------------------------------- clustering
\* The label values of a clustering run: not yet visited, noise, and (in a
\* filtered result) not among the clustered bins.
Unassigned == -1
Noise == -2
FilteredOut == -3

\* The indices 0 .. n - 1 in loop order.
Indices(n) == [ k \in 1..n |-> k - 1 ]

\* SquaredDistance over the red channel only.
SquaredDistance_RedOnly(p, q) ==
  LET dx == At(positions, p * 3) - At(positions, q * 3)
  IN dx * dx

\* (px - qx) ** 2 + (py - qy) ** 2 + (pz - qz) ** 2 for bins p and q.
SquaredDistance(p, q) ==
  LET dx == At(positions, p * 3) - At(positions, q * 3)
      dy == At(positions, p * 3 + 1) - At(positions, q * 3 + 1)
      dz == At(positions, p * 3 + 2) - At(positions, q * 3 + 2)
  IN dx * dx + dy * dy + dz * dz

\* The comparison made strict.
WithinEpsilon_Strict(squared, epsilon) == epsilon >= 0 /\ squared < epsilon * epsilon

\* The comparison turned round.
WithinEpsilon_Beyond(squared, epsilon) == epsilon >= 0 /\ squared >= epsilon * epsilon

\* Math.sqrt(squared) <= epsilon for an integer epsilon: a root is never
\* negative, and the correctly rounded root of an integer is at most a
\* non-negative integer exactly when the integer is at most its square.
WithinEpsilon(squared, epsilon) == epsilon >= 0 /\ squared <= epsilon * epsilon

\* getNeighbors without the test that leaves the point itself out.
getNeighbors_WithSelf(pointIndex, epsilon) ==
  LET Near(i) == WithinEpsilon(SquaredDistance(pointIndex, i), epsilon)
  IN SelectSeq(Indices(Len(values)), Near)

\* Every other bin within epsilon of bin pointIndex, in index order.
getNeighbors(pointIndex, epsilon) ==
  LET Near(i) == i # pointIndex /\ WithinEpsilon(SquaredDistance(pointIndex, i), epsilon)
  IN SelectSeq(Indices(Len(values)), Near)

\* Every other entry of filteredIndices whose bin is within epsilon of the
\* bin of entry pointIndex; the result holds positions in filteredIndices.
getFilteredNeighbors(pointIndex, epsilon, filteredIndices) ==
  LET originalIndex == At(filteredIndices, pointIndex)
      Near(i) == /\ i # pointIndex
                 /\ WithinEpsilon(SquaredDistance(originalIndex, At(filteredIndices, i)), epsilon)
  IN SelectSeq(Indices(Len(filteredIndices)), Near)

\* The while loop without the change of a noise point to a border point.
RECURSIVE ExpandCluster_NoAdoption(_, _, _, _, _)
ExpandCluster_NoAdoption(labels, queue, clusterId, neighborsOf, minPoints) ==
  IF queue = <<>> THEN labels
  ELSE LET q == Head(queue)
       IN IF At(labels, q) # Unassigned
          THEN ExpandCluster_NoAdoption(labels, Tail(queue), clusterId, neighborsOf, minPoints)
          ELSE LET qNeighbors == At(neighborsOf, q)
               IN ExpandCluster_NoAdoption([ labels EXCEPT ![q + 1] = clusterId ],
                    IF Len(qNeighbors) >= minPoints THEN Tail(queue) \o qNeighbors ELSE Tail(queue),
                    clusterId, neighborsOf, minPoints)

\* The while loop without the push of a core point's neighbours: a cluster
\* is its seed and the seed's neighbours.
RECURSIVE ExpandCluster_NoChain(_, _, _, _, _)
ExpandCluster_NoChain(labels, queue, clusterId, neighborsOf, minPoints) ==
  IF queue = <<>> THEN labels
  ELSE LET q == Head(queue)
           adopted == IF At(labels, q) = Noise THEN [ labels EXCEPT ![q + 1] = clusterId ] ELSE labels
       IN IF At(adopted, q) # Unassigned
          THEN ExpandCluster_NoChain(adopted, Tail(queue), clusterId, neighborsOf, minPoints)
          ELSE ExpandCluster_NoChain([ adopted EXCEPT ![q + 1] = clusterId ], Tail(queue),
                                     clusterId, neighborsOf, minPoints)

\* The while loop over the queue of one cluster; neighborsOf holds, per
\* point, the neighbour list the entry point's neighbour search returns.
RECURSIVE ExpandCluster(_, _, _, _, _)
ExpandCluster(labels, queue, clusterId, neighborsOf, minPoints) ==
  IF queue = <<>> THEN labels
  ELSE LET q == Head(queue)
           adopted == IF At(labels, q) = Noise THEN [ labels EXCEPT ![q + 1] = clusterId ] ELSE labels
       IN IF At(adopted, q) # Unassigned
          THEN ExpandCluster(adopted, Tail(queue), clusterId, neighborsOf, minPoints)
          ELSE LET qNeighbors == At(neighborsOf, q)
               IN ExpandCluster([ adopted EXCEPT ![q + 1] = clusterId ],
                    IF Len(qNeighbors) >= minPoints THEN Tail(queue) \o qNeighbors ELSE Tail(queue),
                    clusterId, neighborsOf, minPoints)

\* The for loop with a sparse point left unlabelled.
RECURSIVE DbscanLoop_NoNoiseMark(_, _, _, _, _)
DbscanLoop_NoNoiseMark(i, labels, clusterId, neighborsOf, minPoints) ==
  IF i >= Len(labels) THEN [ labels |-> labels, clusterId |-> clusterId ]
  ELSE IF At(labels, i) # Unassigned
  THEN DbscanLoop_NoNoiseMark(i + 1, labels, clusterId, neighborsOf, minPoints)
  ELSE LET neighbors == At(neighborsOf, i)
       IN IF Len(neighbors) < minPoints
          THEN DbscanLoop_NoNoiseMark(i + 1, labels, clusterId, neighborsOf, minPoints)
          ELSE DbscanLoop_NoNoiseMark(i + 1,
                 ExpandCluster([ labels EXCEPT ![i + 1] = clusterId ], neighbors,
                               clusterId, neighborsOf, minPoints),
                 clusterId + 1, neighborsOf, minPoints)

\* The for loop with clusterId advanced for a sparse point as well.
RECURSIVE DbscanLoop_CountsNoise(_, _, _, _, _)
DbscanLoop_CountsNoise(i, labels, clusterId, neighborsOf, minPoints) ==
  IF i >= Len(labels) THEN [ labels |-> labels, clusterId |-> clusterId ]
  ELSE IF At(labels, i) # Unassigned
  THEN DbscanLoop_CountsNoise(i + 1, labels, clusterId, neighborsOf, minPoints)
  ELSE LET neighbors == At(neighborsOf, i)
       IN IF Len(neighbors) < minPoints
          THEN DbscanLoop_CountsNoise(i + 1, [ labels EXCEPT ![i + 1] = Noise ],
                                      clusterId + 1, neighborsOf, minPoints)
          ELSE DbscanLoop_CountsNoise(i + 1,
                 ExpandCluster([ labels EXCEPT ![i + 1] = clusterId ], neighbors,
                               clusterId, neighborsOf, minPoints),
                 clusterId + 1, neighborsOf, minPoints)

\* The for loop over the points from index i on: labels and the number of
\* clusters opened when it ends.
RECURSIVE DbscanLoop(_, _, _, _, _)
DbscanLoop(i, labels, clusterId, neighborsOf, minPoints) ==
  IF i >= Len(labels) THEN [ labels |-> labels, clusterId |-> clusterId ]
  ELSE IF At(labels, i) # Unassigned
  THEN DbscanLoop(i + 1, labels, clusterId, neighborsOf, minPoints)
  ELSE LET neighbors == At(neighborsOf, i)
       IN IF Len(neighbors) < minPoints
          THEN DbscanLoop(i + 1, [ labels EXCEPT ![i + 1] = Noise ], clusterId, neighborsOf, minPoints)
          ELSE DbscanLoop(i + 1,
                 ExpandCluster([ labels EXCEPT ![i + 1] = clusterId ], neighbors,
                               clusterId, neighborsOf, minPoints),
                 clusterId + 1, neighborsOf, minPoints)

RECURSIVE GCD(_, _)
GCD(a, b) == IF b = 0 THEN a ELSE GCD(b, a % b)

\* p / q for integers p >= 0, q >= 0, held as the fraction <<numerator,
\* denominator>> in lowest terms that the double quotient is nearest to;
\* p / 0 is Infinity and 0 / 0 is NaN.
Divide(p, q) ==
  IF q = 0 THEN (IF p = 0 THEN FloatNaN ELSE FloatInf)
  ELSE << p \div GCD(p, q), q \div GCD(p, q) >>

\* The cluster record with totalFreq counting members instead of pixels.
ClusterInfoOf_CountsMembers(clusterId, points) ==
  LET Weighted(k) == [ j \in 1..Len(points) |->
                         At(positions, points[j] * 3 + k) * At(values, points[j]) ]
      totalFreq == Len(points)
      centroid == << Divide(SumSeq(Weighted(0)), totalFreq),
                     Divide(SumSeq(Weighted(1)), totalFreq),
                     Divide(SumSeq(Weighted(2)), totalFreq) >>
  IN [ id |-> clusterId, points |-> points, centroid |-> centroid,
       totalFrequency |-> totalFreq, averageColor |-> centroid ]

\* The record pushed for a cluster with the given member bins: the totals
\* loop, the centroid and the ClusterInfo literal.
ClusterInfoOf(clusterId, points) ==
  LET Weighted(k) == [ j \in 1..Len(points) |->
                         At(positions, points[j] * 3 + k) * At(values, points[j]) ]
      totalFreq == SumSeq([ j \in 1..Len(points) |-> At(values, points[j]) ])
      centroid == << Divide(SumSeq(Weighted(0)), totalFreq),
                     Divide(SumSeq(Weighted(1)), totalFreq),
                     Divide(SumSeq(Weighted(2)), totalFreq) >>
  IN [ id |-> clusterId, points |-> points, centroid |-> centroid,
       totalFrequency |-> totalFreq, averageColor |-> centroid ]

\* The loop over cluster ids from clusterId on; original maps a position in
\* labels to the bin index reported for it.
RECURSIVE GroupByCluster(_, _, _, _, _)
GroupByCluster(clusterId, numClusters, labels, original, clusters) ==
  IF clusterId >= numClusters THEN clusters
  ELSE LET Member(index) == At(labels, index) = clusterId
           members == SelectSeq(Indices(Len(labels)), Member)
           points == [ j \in 1..Len(members) |-> At(original, members[j]) ]
       IN GroupByCluster(clusterId + 1, numClusters, labels, original,
            IF Len(points) = 0 THEN clusters
            ELSE Append(clusters, ClusterInfoOf(clusterId, points)))

\* The positions in labels that carry the noise label, in index order.
NoisePositions(labels) ==
  LET IsNoise(i) == At(labels, i) = Noise
  IN SelectSeq(Indices(Len(labels)), IsNoise)

buildClusterResult(labels, numClusters) ==
  [ clusters |-> GroupByCluster(0, numClusters, labels, Indices(Len(labels)), <<>>),
    noise |-> NoisePositions(labels),
    labels |-> labels ]

\* buildFilteredClusterResult reporting positions in filteredIndices.
buildFilteredClusterResult_Unmapped(labels, numClusters, filteredIndices) ==
  buildClusterResult(labels, numClusters)

buildFilteredClusterResult(labels, numClusters, filteredIndices) ==
  LET noise == NoisePositions(labels)
      Written(b) == { i \in 1..Len(labels) : filteredIndices[i] = b }
      Last(S) == CHOOSE i \in S : \A j \in S : j <= i
  IN [ clusters |-> GroupByCluster(0, numClusters, labels, filteredIndices, <<>>),
       noise |-> [ j \in 1..Len(noise) |-> At(filteredIndices, noise[j]) ],
       labels |-> [ k \in 1..Len(values) |->
                      IF Written(k - 1) = {} THEN FilteredOut
                      ELSE labels[Last(Written(k - 1))] ] ]

\* ------------------------------------------------- clustering entry points
dbscanClustering(epsilon, minPoints) ==
  LET n == Len(values)
      neighborsOf == [ k \in 1..n |-> getNeighbors(k - 1, epsilon) ]
      run == DbscanLoop(0, [ k \in 1..n |-> Unassigned ], 0, neighborsOf, minPoints)
  IN buildClusterResult(run.labels, run.clusterId)

dbscanClusteringWithIndices(epsilon, minPoints, filteredIndices) ==
  LET n == Len(filteredIndices)
      neighborsOf == [ k \in 1..n |-> getFilteredNeighbors(k - 1, epsilon, filteredIndices) ]
      run == DbscanLoop(0, [ k \in 1..n |-> Unassigned ], 0, neighborsOf, minPoints)
  IN buildFilteredClusterResult(run.labels, run.clusterId, filteredIndices)

\* dbscanClusteringFiltered falling back to every bin when the range
\* selects none.
dbscanClusteringFiltered_FallbackAll(epsilon, minPoints, minT, maxT) ==
  LET selected == FilterLoop(0, FloorScaled(minT), FloorScaled(maxT), <<>>)
      filteredIndices == IF selected = <<>> THEN Indices(Len(values)) ELSE selected
      n == Len(filteredIndices)
      neighborsOf == [ k \in 1..n |-> getFilteredNeighbors(k - 1, epsilon, filteredIndices) ]
      run == DbscanLoop(0, [ k \in 1..n |-> Unassigned ], 0, neighborsOf, minPoints)
  IN buildFilteredClusterResult(run.labels, run.clusterId, filteredIndices)

dbscanClusteringFiltered(epsilon, minPoints, minT, maxT) ==
  LET minCount == FloorScaled(minT)
      maxCount == FloorScaled(maxT)
      filteredIndices == FilterLoop(0, minCount, maxCount, <<>>)
      n == Len(filteredIndices)
      neighborsOf == [ k \in 1..n |-> getFilteredNeighbors(k - 1, epsilon, filteredIndices) ]
      run == DbscanLoop(0, [ k \in 1..n |-> Unassigned ], 0, neighborsOf, minPoints)
  IN buildFilteredClusterResult(run.labels, run.clusterId, filteredIndices)

\* ------------------------------------------------------- clustering inputs
\* Opaque colours at four corners of the RGB cube: black, red and yellow
\* lie along two edges (255 apart, black to yellow 255 * sqrt(2), about
\* 360.6); cyan is 360.6 from black and from yellow and 255 * sqrt(3),
\* about 441.7, from red.
ClusterPalette ==
  { <<0, 0, 0, 255>>, <<255, 0, 0, 255>>, <<255, 255, 0, 255>>, <<0, 255, 255, 255>> }

\* One-row rasters painted with the clustering palette, in every order.
ClusterRasters ==
  UNION { { [ width |-> n, height |-> 1, data |-> Flatten(px) ] :
              px \in [ 1..n -> ClusterPalette ] } : n \in 0..MaxPixels }

\* Radii: none, below every distance, the cube's edge, a face's diagonal
\* rounded up, above every distance.
Epsilons == { 0, 1, 255, 361, 500 }

MinPointsChoices == { 0, 1, 2, 3 }

\* The lists of distinct bin indices in ascending order, as getFilteredData
\* produces them.
IndexLists ==
  { LET Chosen(i) == i \in S IN SelectSeq(Indices(Len(values)), Chosen) :
      S \in SUBSET (0..(Len(values) - 1)) }

\* A caller invokes dbscanClustering on the built instance; clusterCall
\* holds the call: its arguments and the value it returned.
DbscanClustering ==
  /\ pc = "built"
  /\ clusterCall = <<>>
  /\ \E epsilon \in Epsilons, minPoints \in MinPointsChoices :
       clusterCall' = << [ entry |-> "dbscanClustering",
                           args |-> << epsilon, minPoints >>,
                           result |-> << dbscanClustering(epsilon, minPoints) >> ] >>
  /\ UNCHANGED << inputVars, pc, histVars, filterCall, hostVars, dbscanRun, appVars >>

\* A caller invokes dbscanClusteringWithIndices with a list of bin indices.
DbscanClusteringWithIndices ==
  /\ pc = "built"
  /\ clusterCall = <<>>
  /\ \E epsilon \in Epsilons, minPoints \in MinPointsChoices, filteredIndices \in IndexLists :
       clusterCall' = << [ entry |-> "dbscanClusteringWithIndices",
                           args |-> << epsilon, minPoints, filteredIndices >>,
                           result |-> << dbscanClusteringWithIndices(epsilon, minPoints,
                                                                     filteredIndices) >> ] >>
  /\ UNCHANGED << inputVars, pc, histVars, filterCall, hostVars, dbscanRun, appVars >>

\* A caller invokes the deprecated dbscanClusteringFiltered with a
\* threshold pair.
DbscanClusteringFiltered ==
  /\ pc = "built"
  /\ clusterCall = <<>>
  /\ \E epsilon \in Epsilons, minPoints \in MinPointsChoices, minT \in Numbers, maxT \in Numbers :
       clusterCall' = << [ entry |-> "dbscanClusteringFiltered",
                           args |-> << epsilon, minPoints, minT, maxT >>,
                           result |-> << dbscanClusteringFiltered(epsilon, minPoints,
                                                                  minT, maxT) >> ] >>
  /\ UNCHANGED << inputVars, pc, histVars, filterCall, hostVars, dbscanRun, appVars >>

\* The constructor's field initialisers for a raster of the clustering
\* inputs, with the default options: the single-pass build lists the bins
\* in first-seen order, so the rasters bring the bins in every order.
ClusterInit ==
  /\ pixelData \in ClusterRasters
  /\ algorithm = "single-pass"
  /\ visualizationMode = "opacity"
  /\ pc = "new"
  /\ nonZeroCount = 0
  /\ totalCount = 0
  /\ maxValue = 0
  /\ positions = <<>>
  /\ values = <<>>
  /\ colors = <<>>
  /\ sizes = <<>>
  /\ pixelSources = <<>>
  /\ filterCall = <<>>
  /\ tristogramInstance = FALSE
  /\ minThreshold = 0
  /\ maxThreshold = Den
  /\ imageData = <<>>
  /\ clusterCall = <<>>
  /\ dbscanRun = <<>>
  /\ isClusteringRunning = FALSE
  /\ clusteringProgress = ""
  /\ appClusterResult = <<>>
  /\ clusterResult = <<>>
  /\ timers = <<>>

ClusterNext ==
  \/ Construct
  \/ DbscanClustering
  \/ DbscanClusteringWithIndices
  \/ DbscanClusteringFiltered

ClusterSpec == ClusterInit /\ [][ClusterNext]_vars

\* ------------------------------------------------------- sequences of calls
\* Two one-row rasters of near colours (10 apart along the red axis), each
\* of three bins of which one is counted twice: the filtered indices of one
\* are bin indices of the other.
NearBlack == <<0, 0, 0, 255>>
NearDark == <<10, 0, 0, 255>>
NearRed == <<20, 0, 0, 255>>

SmallRasters ==
  { [ width |-> 4, height |-> 1,
      data |-> Flatten(<< NearBlack, NearDark, NearDark, NearRed >>) ],
    [ width |-> 4, height |-> 1,
      data |-> Flatten(<< NearRed, NearRed, NearBlack, NearDark >>) ] }

\* The constructor's field initialisers for one of the small rasters, with
\* either build.
ApiInit ==
  /\ pixelData \in SmallRasters
  /\ algorithm \in { "single-pass", "legacy" }
  /\ visualizationMode = "opacity"
  /\ pc = "new"
  /\ nonZeroCount = 0
  /\ totalCount = 0
  /\ maxValue = 0
  /\ positions = <<>>
  /\ values = <<>>
  /\ colors = <<>>
  /\ sizes = <<>>
  /\ pixelSources = <<>>
  /\ filterCall = <<>>
  /\ tristogramInstance = FALSE
  /\ minThreshold = 0
  /\ maxThreshold = Den
  /\ imageData = <<>>
  /\ clusterCall = <<>>
  /\ dbscanRun = <<>>
  /\ isClusteringRunning = FALSE
  /\ clusteringProgress = ""
  /\ appClusterResult = <<>>
  /\ clusterResult = <<>>
  /\ timers = <<>>

\* The instance's public calls in any order: getFilteredData any number of
\* times, before and after a clustering call of any entry point.
ApiNext ==
  \/ Construct
  \/ GetFilteredData
  \/ DbscanClustering
  \/ DbscanClusteringWithIndices
  \/ DbscanClusteringFiltered

ApiSpec == ApiInit /\ [][ApiNext]_vars

\* ------------------------------------------------- a run, step by step
\* The neighbour list the run r asks for point p: getNeighbors in
\* dbscanClustering, getFilteredNeighbors in dbscanClusteringWithIndices.
RunNeighbors(r, p) ==
  IF r.entry = "dbscanClustering" THEN getNeighbors(p, r.epsilon)
  ELSE getFilteredNeighbors(p, r.epsilon, r.filteredIndices)

\* The locals of a run that has allocated labels and not yet entered the
\* for loop; expanded lists, for the claims, the points whose neighbours
\* were put on the queue.
RunLocals(entry, epsilon, minPoints, filteredIndices) ==
  [ entry |-> entry, epsilon |-> epsilon, minPoints |-> minPoints,
    filteredIndices |-> filteredIndices,
    labels |-> [ k \in 1..Len(filteredIndices) |-> Unassigned ],
    i |-> 0, clusterId |-> 0, queue |-> <<>>, at |-> "for", expanded |-> <<>> ]

\* dbscanClustering is entered: n = values.length, labels filled with -1.
StartDbscanClustering ==
  /\ pc = "built"
  /\ dbscanRun = <<>>
  /\ \E epsilon \in Epsilons, minPoints \in MinPointsChoices :
       dbscanRun' = << RunLocals("dbscanClustering", epsilon, minPoints,
                                 Indices(Len(values))) >>
  /\ UNCHANGED << inputVars, pc, histVars, filterCall, hostVars, clusterCall, appVars >>

\* dbscanClusteringWithIndices is entered with a list of bin indices.
StartDbscanClusteringWithIndices ==
  /\ pc = "built"
  /\ dbscanRun = <<>>
  /\ \E epsilon \in Epsilons, minPoints \in MinPointsChoices, filteredIndices \in IndexLists :
       dbscanRun' = << RunLocals("dbscanClusteringWithIndices", epsilon, minPoints,
                                 filteredIndices) >>
  /\ UNCHANGED << inputVars, pc, histVars, filterCall, hostVars, clusterCall, appVars >>

\* One pass of the for loop body: skip a labelled point, mark a sparse
\* point noise, or open a cluster with the point and queue its neighbours.
ForStep ==
  /\ dbscanRun # <<>>
  /\ LET r == dbscanRun[1]
     IN /\ r.at = "for"
        /\ r.i < Len(r.labels)
        /\ dbscanRun' =
             << IF At(r.labels, r.i) # Unassigned
                THEN [ r EXCEPT !.i = r.i + 1 ]
                ELSE LET neighbors == RunNeighbors(r, r.i)
                     IN IF Len(neighbors) < r.minPoints
                        THEN [ r EXCEPT !.labels[r.i + 1] = Noise, !.i = r.i + 1 ]
                        ELSE [ r EXCEPT !.labels[r.i + 1] = r.clusterId,
                                        !.queue = neighbors,
                                        !.at = "while",
                                        !.expanded = Append(@, r.i) ] >>
  /\ UNCHANGED << inputVars, pc, histVars, filterCall, hostVars, clusterCall, appVars >>

\* The while loop body queueing the neighbours of an adopted noise point
\* as well.
WhileStep_ExpandsAdopted ==
  /\ dbscanRun # <<>>
  /\ LET r == dbscanRun[1]
     IN /\ r.at = "while"
        /\ r.queue # <<>>
        /\ LET q == Head(r.queue)
               rest == Tail(r.queue)
               qNeighbors == RunNeighbors(r, q)
           IN dbscanRun' =
                << IF At(r.labels, q) = Noise
                   THEN [ r EXCEPT !.labels[q + 1] = r.clusterId,
                                   !.queue = rest \o qNeighbors,
                                   !.expanded = Append(@, q) ]
                   ELSE IF At(r.labels, q) # Unassigned
                   THEN [ r EXCEPT !.queue = rest ]
                   ELSE [ r EXCEPT !.labels[q + 1] = r.clusterId,
                                   !.queue = IF Len(qNeighbors) >= r.minPoints
                                             THEN rest \o qNeighbors ELSE rest,
                                   !.expanded = IF Len(qNeighbors) >= r.minPoints
                                                THEN Append(@, q) ELSE @ ] >>
  /\ UNCHANGED << inputVars, pc, histVars, filterCall, hostVars, clusterCall, appVars >>

\* The while loop body putting a labelled point back on the queue.
WhileStep_Requeue ==
  /\ dbscanRun # <<>>
  /\ LET r == dbscanRun[1]
     IN /\ r.at = "while"
        /\ r.queue # <<>>
        /\ LET q == Head(r.queue)
               rest == Tail(r.queue)
               adopted == IF At(r.labels, q) = Noise
                          THEN [ r.labels EXCEPT ![q + 1] = r.clusterId ] ELSE r.labels
           IN dbscanRun' =
                << IF At(adopted, q) # Unassigned
                   THEN [ r EXCEPT !.labels = adopted, !.queue = Append(rest, q) ]
                   ELSE LET qNeighbors == RunNeighbors(r, q)
                        IN [ r EXCEPT !.labels[q + 1] = r.clusterId,
                                      !.queue = IF Len(qNeighbors) >= r.minPoints
                                                THEN rest \o qNeighbors ELSE rest,
                                      !.expanded = IF Len(qNeighbors) >= r.minPoints
                                                   THEN Append(@, q) ELSE @ ] >>
  /\ UNCHANGED << inputVars, pc, histVars, filterCall, hostVars, clusterCall, appVars >>

\* One pass of the while loop body: shift q off the queue, adopt it when
\* it is noise, skip it when it is labelled, else label it and push its
\* neighbours when it is a core point.
WhileStep ==
  /\ dbscanRun # <<>>
  /\ LET r == dbscanRun[1]
     IN /\ r.at = "while"
        /\ r.queue # <<>>
        /\ LET q == Head(r.queue)
               rest == Tail(r.queue)
               adopted == IF At(r.labels, q) = Noise
                          THEN [ r.labels EXCEPT ![q + 1] = r.clusterId ] ELSE r.labels
           IN dbscanRun' =
                << IF At(adopted, q) # Unassigned
                   THEN [ r EXCEPT !.labels = adopted, !.queue = rest ]
                   ELSE LET qNeighbors == RunNeighbors(r, q)
                        IN [ r EXCEPT !.labels[q + 1] = r.clusterId,
                                      !.queue = IF Len(qNeighbors) >= r.minPoints
                                                THEN rest \o qNeighbors ELSE rest,
                                      !.expanded = IF Len(qNeighbors) >= r.minPoints
                                                   THEN Append(@, q) ELSE @ ] >>
  /\ UNCHANGED << inputVars, pc, histVars, filterCall, hostVars, clusterCall, appVars >>

\* The queue is empty: clusterId++ and the for loop's i++.
WhileEnd ==
  /\ dbscanRun # <<>>
  /\ LET r == dbscanRun[1]
     IN /\ r.at = "while"
        /\ r.queue = <<>>
        /\ dbscanRun' = << [ r EXCEPT !.clusterId = r.clusterId + 1,
                                      !.i = r.i + 1,
                                      !.at = "for" ] >>
  /\ UNCHANGED << inputVars, pc, histVars, filterCall, hostVars, clusterCall, appVars >>

\* The for loop is over: the result is built and returned.
ReturnResult ==
  /\ dbscanRun # <<>>
  /\ LET r == dbscanRun[1]
     IN /\ r.at = "for"
        /\ r.i >= Len(r.labels)
        /\ dbscanRun' = << [ r EXCEPT !.at = "done" ] >>
        /\ clusterCall' =
             << [ entry |-> r.entry,
                  args |-> IF r.entry = "dbscanClustering"
                           THEN << r.epsilon, r.minPoints >>
                           ELSE << r.epsilon, r.minPoints, r.filteredIndices >>,
                  result |-> << IF r.entry = "dbscanClustering"
                                THEN buildClusterResult(r.labels, r.clusterId)
                                ELSE buildFilteredClusterResult(r.labels, r.clusterId,
                                                                r.filteredIndices) >> ] >>
  /\ UNCHANGED << inputVars, pc, histVars, filterCall, hostVars, appVars >>

\* One-row rasters of the clustering palette in which no colour repeats:
\* the bins in every order, each counted once.
RunRasters ==
  { r \in ClusterRasters :
      \A a \in 1..r.width, b \in 1..r.width :
        a # b => getPixel(r, a - 1, 0) # getPixel(r, b - 1, 0) }

RunInit ==
  /\ pixelData \in RunRasters
  /\ algorithm = "single-pass"
  /\ visualizationMode = "opacity"
  /\ pc = "new"
  /\ nonZeroCount = 0
  /\ totalCount = 0
  /\ maxValue = 0
  /\ positions = <<>>
  /\ values = <<>>
  /\ colors = <<>>
  /\ sizes = <<>>
  /\ pixelSources = <<>>
  /\ filterCall = <<>>
  /\ tristogramInstance = FALSE
  /\ minThreshold = 0
  /\ maxThreshold = Den
  /\ imageData = <<>>
  /\ clusterCall = <<>>
  /\ dbscanRun = <<>>
  /\ isClusteringRunning = FALSE
  /\ clusteringProgress = ""
  /\ appClusterResult = <<>>
  /\ clusterResult = <<>>
  /\ timers = <<>>

\* The statements of a run in progress.
RunStep == ForStep \/ WhileStep \/ WhileEnd \/ ReturnResult

RunNext ==
  \/ Construct
  \/ StartDbscanClustering
  \/ StartDbscanClusteringWithIndices
  \/ ForStep
  \/ WhileStep
  \/ WhileEnd
  \/ ReturnResult

RunSpec == RunInit /\ [][RunNext]_vars

\* A call that has started executes its next statement.
RunFairSpec == RunSpec /\ WF_vars(RunStep)

\* ------------------------------------------------------ host: clustering
\* The host refuses to cluster more colours than this.
MaxClusterColors == 20000

\* Values of the host's epsilon and minPoints controls: the default
\* epsilon and the least minPoints.
HostEpsilons == { 20 }
HostMinPoints == { 2 }

\* Tristogram.fromHTMLImage: the default build with the host's mode.
fromHTMLImage(raster, mode) == buildSinglePass(raster, mode)

\* The image effect's load callback for an image dropped on the page: a new
\* Tristogram is built from it and installed; nothing else is set.
DropImage ==
  /\ tristogramInstance
  /\ \E raster \in SmallRasters \ { pixelData } :
       \E built \in { fromHTMLImage(raster, visualizationMode) } :
          /\ pixelData' = raster
          /\ nonZeroCount' = built.nonZeroCount
          /\ totalCount' = built.totalCount
          /\ maxValue' = built.maxValue
          /\ positions' = built.positions
          /\ values' = built.values
          /\ colors' = built.colors
          /\ sizes' = built.sizes
          /\ pixelSources' = built.pixelSources
  /\ UNCHANGED << algorithm, visualizationMode, pc, filterCall, hostVars, clusterCall,
                  dbscanRun, appVars >>

\* handleClusteringClick without the test of isClusteringRunning.
ClusteringClick_NoRunningCheck ==
  /\ imageData # <<>>
  /\ imageData[1].count <= MaxClusterColors
  /\ IF appClusterResult # <<>>
     THEN /\ appClusterResult' = <<>>
          /\ clusteringProgress' = ""
          /\ UNCHANGED << isClusteringRunning, clusterResult, timers >>
     ELSE /\ isClusteringRunning' = TRUE
          /\ clusteringProgress' = "Preparing..."
          /\ UNCHANGED << appClusterResult, clusterResult, timers >>
  /\ UNCHANGED << inputVars, pc, histVars, filterCall, hostVars, clusterCall, dbscanRun >>

\* A click on the clustering button, which is rendered once the filtered
\* data info is there and is disabled above MaxClusterColors colours:
\* handleClusteringClick returns at once while a run is on, clears the
\* App's cluster result when there is one, and asks for a run otherwise.
ClusteringClick ==
  /\ imageData # <<>>
  /\ imageData[1].count <= MaxClusterColors
  /\ IF isClusteringRunning
     THEN UNCHANGED appVars
     ELSE IF appClusterResult # <<>>
     THEN /\ appClusterResult' = <<>>
          /\ clusteringProgress' = ""
          /\ UNCHANGED << isClusteringRunning, clusterResult, timers >>
     ELSE /\ isClusteringRunning' = TRUE
          /\ clusteringProgress' = "Preparing..."
          /\ UNCHANGED << appClusterResult, clusterResult, timers >>
  /\ UNCHANGED << inputVars, pc, histVars, filterCall, hostVars, clusterCall, dbscanRun >>

\* The call a timer callback makes: dbscanClusteringWithIndices on the
\* instance built from the given raster.
ClusteringCall(raster, epsilon, minPoints, filteredIndices) ==
  [ instance |-> raster, epsilon |-> epsilon, minPoints |-> minPoints,
    filteredIndices |-> filteredIndices ]

\* The clustering effect of a render with runClustering set: it refuses a
\* filtered set above MaxClusterColors, else schedules the callback that
\* clusters the render's filtered indices with the render's instance and
\* parameters.  The effect runs again whenever one of its dependencies
\* changes, and onClusteringComplete is a new function at every render of
\* App; MaxTimers caps the callbacks pending at once.
ClusteringEffect ==
  /\ isClusteringRunning
  /\ tristogramInstance
  /\ imageData # <<>>
  /\ Len(timers) < MaxTimers
  /\ IF imageData[1].count > MaxClusterColors
     THEN /\ clusteringProgress' = "Dataset too large"
          /\ isClusteringRunning' = FALSE
          /\ UNCHANGED timers
     ELSE /\ clusteringProgress' = "Starting clustering..."
          /\ \E epsilon \in HostEpsilons, minPoints \in HostMinPoints :
               timers' = Append(timers,
                                ClusteringCall(pixelData, epsilon, minPoints,
                                               imageData[1].filteredIndices))
          /\ UNCHANGED isClusteringRunning
  /\ UNCHANGED << appClusterResult, clusterResult >>
  /\ UNCHANGED << inputVars, pc, histVars, filterCall, hostVars, clusterCall, dbscanRun >>

\* The timer callback whose catch block leaves isClusteringRunning set.
TimerFires_CatchKeepsRunning ==
  /\ timers # <<>>
  /\ timers' = Tail(timers)
  /\ \/ /\ clusterResult' = << Head(timers) >>
        /\ appClusterResult' = << Head(timers) >>
        /\ clusteringProgress' = "Clustering complete"
        /\ isClusteringRunning' = FALSE
     \/ /\ clusteringProgress' = "Clustering failed"
        /\ UNCHANGED << isClusteringRunning, clusterResult, appClusterResult >>
  /\ UNCHANGED << inputVars, pc, histVars, filterCall, hostVars, clusterCall, dbscanRun >>

\* The oldest pending timer callback runs: either the try block goes
\* through (both cluster results are set, the run is reported complete) or
\* it throws at the clustering call and the catch block reports the run
\* complete.
TimerFires ==
  /\ timers # <<>>
  /\ timers' = Tail(timers)
  /\ \/ /\ clusterResult' = << Head(timers) >>
        /\ appClusterResult' = << Head(timers) >>
        /\ clusteringProgress' = "Clustering complete"
        /\ isClusteringRunning' = FALSE
     \/ /\ clusteringProgress' = "Clustering failed"
        /\ isClusteringRunning' = FALSE
        /\ UNCHANGED << clusterResult, appClusterResult >>
  /\ UNCHANGED << inputVars, pc, histVars, filterCall, hostVars, clusterCall, dbscanRun >>

\* The value of a cluster result of the host that came from the installed
\* instance.
ClusterResultOf(call) ==
  dbscanClusteringWithIndices(call.epsilon, call.minPoints, call.filteredIndices)

\* hslToRgb(h, 0.7, 0.6) for the hue h = halfDegrees / 720: c = 0.56,
\* m = 0.32 and x = c * (1 - |(h * 6) % 2 - 1|), each channel a fraction.
hslToRgb(halfDegrees) ==
  LET c == 6720
      m == 3840
      t == halfDegrees % 240
      x == 56 * (120 - (IF t >= 120 THEN t - 120 ELSE 120 - t))
      rgb == IF halfDegrees < 120 THEN << c, x, 0 >>
             ELSE IF halfDegrees < 240 THEN << x, c, 0 >>
             ELSE IF halfDegrees < 360 THEN << 0, c, x >>
             ELSE IF halfDegrees < 480 THEN << 0, x, c >>
             ELSE IF halfDegrees < 600 THEN << x, 0, c >>
             ELSE << c, 0, x >>
  IN [ k \in 1..3 |-> Divide(rgb[k] + m, 12000) ]

\* The colour array of generateClusterColors for the filtered data and the
\* cluster result given, with the installed instance.
generateClusterColors(data, result) ==
  LET numPoints == Len(data.positions) \div 3
      clusterColors == [ index \in 1..Len(result.clusters) |->
                           hslToRgb(((index - 1) * 275) % 720) ]
      ColorOf(clusterId) ==
        IF clusterId = Noise
        THEN << Fround(3, 10), Fround(3, 10), Fround(3, 10) >>
        ELSE IF clusterId >= 0 /\ clusterId < Len(clusterColors)
        THEN [ k \in 1..3 |-> Fround(At(clusterColors, clusterId)[k][1],
                                     At(clusterColors, clusterId)[k][2]) ]
        ELSE << FloatOne, FloatOne, FloatOne >>
  IN Flatten([ slot \in 1..numPoints |->
       ColorOf(At(result.labels, slot - 1))
         \o << IF visualizationMode = "opacity"
               THEN Fround(At(values, slot - 1), maxValue)
               ELSE FloatOne >> ])

\* The colour array of generateSelectedClusterColors with the given
\* cluster selected.
generateSelectedClusterColors(data, result, selectedCluster) ==
  LET numPoints == Len(data.positions) \div 3
  IN Flatten([ slot \in 1..numPoints |->
       IF At(result.labels, slot - 1) = selectedCluster
       THEN << FloatOne, Fround(2, 10), Fround(2, 10), FloatOne >>
       ELSE << Fround(3, 10), Fround(3, 10), Fround(3, 10), Fround(3, 10) >> ])

AppInit ==
  /\ pixelData \in SmallRasters
  /\ algorithm = "single-pass"
  /\ visualizationMode = "opacity"
  /\ pc = "new"
  /\ nonZeroCount = 0
  /\ totalCount = 0
  /\ maxValue = 0
  /\ positions = <<>>
  /\ values = <<>>
  /\ colors = <<>>
  /\ sizes = <<>>
  /\ pixelSources = <<>>
  /\ filterCall = <<>>
  /\ tristogramInstance = FALSE
  /\ minThreshold = 0
  /\ maxThreshold = Den
  /\ imageData = <<>>
  /\ clusterCall = <<>>
  /\ dbscanRun = <<>>
  /\ isClusteringRunning = FALSE
  /\ clusteringProgress = ""
  /\ appClusterResult = <<>>
  /\ clusterResult = <<>>
  /\ timers = <<>>

AppNext ==
  \/ LoadImage
  \/ DropImage
  \/ FilterEffect
  \/ ClusteringClick
  \/ ClusteringEffect
  \/ TimerFires

AppSpec == AppInit /\ [][AppNext]_vars

\* One image for the whole session: the host without a second drop.
AppFairNext ==
  \/ LoadImage
  \/ FilterEffect
  \/ ClusteringClick
  \/ ClusteringEffect
  \/ TimerFires

\* React runs the effects of a committed render and the browser runs a
\* timer that is due.
AppFairSpec ==
  /\ AppInit
  /\ [][AppFairNext]_vars
  /\ WF_vars(ClusteringEffect)
  /\ WF_vars(TimerFires)

\* ================================================================= claims
Built == pc = "built"

PixelCount == pixelData.width * pixelData.height

\* The colour triple held in positions for bin i (0-based).
BinColor(i) == << At(positions, 3 * i), At(positions, 3 * i + 1), At(positions, 3 * i + 2) >>

BinIndices == 0..(Len(values) - 1)

\* The R, G, B bytes the raster stores for coordinate c, read off the
\* row-major layout.
RasterColor(c) ==
  LET base == 4 * (c.y * pixelData.width + c.x)
  IN << pixelData.data[base + 1], pixelData.data[base + 2], pixelData.data[base + 3] >>

RasterCoords ==
  { [ x |-> x, y |-> y ] : x \in 0..(pixelData.width - 1), y \in 0..(pixelData.height - 1) }

\* C1: after construction, with either algorithm, the counts of all bins
\* add up to width * height.
C1_CountsSumToPixels == Built => SumSeq(values) = PixelCount

C1_Witness ==
  /\ Built
  /\ algorithm = "legacy"
  /\ pixelData.width = 2 /\ pixelData.height = 2
  /\ Len(values) = 2
  /\ SumSeq(values) = 4

\* C2: after construction every bin's count is the length of its source
\* list, and the source lists together hold every coordinate of the raster
\* exactly once.
C2_SourcesPartitionPixels ==
  Built =>
    LET all == Flatten(pixelSources)
    IN /\ Len(pixelSources) = Len(values)
       /\ \A i \in 1..Len(values) : values[i] = Len(pixelSources[i])
       /\ Range(all) = RasterCoords
       /\ Len(all) = Cardinality(RasterCoords)

C2_Witness ==
  /\ Built
  /\ pixelData.width = 1 /\ pixelData.height = 2
  /\ Len(values) = 1
  /\ pixelSources = << << [ x |-> 0, y |-> 0 ], [ x |-> 0, y |-> 1 ] >> >>

\* C3: after construction maxValue is the largest count, it is at least 1
\* when the raster has a pixel, and there is a bin exactly when the raster
\* has a pixel.
C3_MaxValueIsLargestCount ==
  Built =>
    /\ (values # <<>>) => /\ \E i \in 1..Len(values) : values[i] = maxValue
                          /\ \A i \in 1..Len(values) : values[i] <= maxValue
    /\ (values = <<>>) => maxValue = 0
    /\ (PixelCount >= 1) => maxValue >= 1
    /\ (Len(values) > 0) <=> (PixelCount >= 1)

C3_Witness ==
  /\ Built
  /\ algorithm = "single-pass"
  /\ Len(values) = 2
  /\ values[1] = 1
  /\ maxValue = 3

\* Sample channel values for the key round trip: both ends of the byte
\* range, the lowest bit and the highest bit of a byte.
ByteSamples == { 0, 1, 128, 255 }

\* C4: the histogram holds exactly one bin per distinct (R,G,B) triple of
\* the raster: bin positions are pairwise different, every source pixel of
\* a bin has the bin's position as its colour, pixels that differ in alpha
\* only share a bin, and decoding an encoded triple gives the triple back.
C4_OneBinPerColor ==
  Built =>
       /\ \A r \in ByteSamples, g \in ByteSamples, b \in ByteSamples :
            decodeRGB(encodeRGB(r, g, b)) = << r, g, b >>
       /\ \A i \in BinIndices, j \in BinIndices : i # j => BinColor(i) # BinColor(j)
       /\ \A i \in BinIndices : \A c \in Range(At(pixelSources, i)) : RasterColor(c) = BinColor(i)
       /\ { BinColor(i) : i \in BinIndices } = { RasterColor(c) : c \in RasterCoords }
       /\ \A c \in RasterCoords, d \in RasterCoords :
            RasterColor(c) = RasterColor(d) =>
              \E i \in BinIndices : {c, d} \subseteq Range(At(pixelSources, i))

C4_Witness ==
  /\ Built
  /\ algorithm = "single-pass"
  /\ pixelData.width = 2 /\ pixelData.height = 2
  /\ Len(values) = 3
  /\ \E c \in RasterCoords, d \in RasterCoords :
       /\ RasterColor(c) = RasterColor(d)
       /\ pixelData.data[4 * (c.y * 2 + c.x) + 4] # pixelData.data[4 * (d.y * 2 + d.x) + 4]

\* The entries of a build result as a set: colour, count, alpha, sources.
EntriesOf(h) ==
  { << h.positions[3 * i - 2], h.positions[3 * i - 1], h.positions[3 * i],
       h.values[i], h.colors[4 * i], h.pixelSources[i] >> : i \in 1..Len(h.values) }

\* C5: for every raster the legacy and the single-pass build give the same
\* nonZeroCount, maxValue and totalCount (256^3) and, up to bin order, the
\* same entries (r, g, b, count, alpha) with the same pixel sources.
C5_AlgorithmsAgree ==
  Built =>
    LET mine == [ nonZeroCount |-> nonZeroCount, totalCount |-> totalCount,
                  maxValue |-> maxValue, positions |-> positions, values |-> values,
                  colors |-> colors, sizes |-> sizes, pixelSources |-> pixelSources ]
        other == IF algorithm = "legacy"
                 THEN buildSinglePass(pixelData, visualizationMode)
                 ELSE buildLegacy(pixelData, visualizationMode)
    IN /\ mine.nonZeroCount = other.nonZeroCount
       /\ mine.maxValue = other.maxValue
       /\ mine.totalCount = other.totalCount
       /\ mine.totalCount = 16777216
       /\ Len(mine.values) = Len(other.values)
       /\ Len(mine.positions) = Len(other.positions)
       /\ Len(mine.colors) = Len(other.colors)
       /\ EntriesOf(mine) = EntriesOf(other)

\* A raster on which the two builds order their bins differently.
C5_Witness ==
  /\ Built
  /\ algorithm = "single-pass"
  /\ Len(values) = 3
  /\ maxValue = 2
  /\ positions # buildLegacy(pixelData, visualizationMode).positions

\* Bin i's alpha, colors[4i + 3], as the pair <<m, e>>.
Alpha(i) == At(colors, 4 * i + 3)

\* | m * maxValue - count * 2^e |: zero exactly when alpha = count / maxValue.
AlphaError(i) ==
  LET d == Alpha(i)[1] * maxValue - At(values, i) * Pow2(Alpha(i)[2])
  IN IF d < 0 THEN 0 - d ELSE d

\* C6 as stated: in opacity mode every bin's alpha equals
\* values[i] / maxValue, lies in (0,1] and is 1.0 for a bin whose count is
\* maxValue, with no division by zero.
C6_AlphaIsExactQuotient ==
  (Built /\ visualizationMode = "opacity") =>
    \A i \in BinIndices :
      /\ Alpha(i)[2] >= 0
      /\ AlphaError(i) = 0
      /\ Alpha(i)[1] > 0 /\ Alpha(i)[1] <= Pow2(Alpha(i)[2])
      /\ (At(values, i) = maxValue) => Alpha(i) = FloatOne

\* C6 amended: in opacity mode every bin's alpha is values[i] / maxValue
\* rounded to single precision: equal to the quotient when maxValue is a
\* power of two, within a relative error of 2^-24 of it otherwise; it lies
\* in (0,1], it is 1.0 for a bin whose count is maxValue, and no division
\* by zero occurs.
C6_AlphaIsRoundedQuotient ==
  (Built /\ visualizationMode = "opacity") =>
    \A i \in BinIndices :
      /\ Alpha(i)[2] >= 0
      /\ \/ AlphaError(i) = 0
         \/ /\ Alpha(i)[2] >= 24
            /\ AlphaError(i) <= At(values, i) * Pow2(Alpha(i)[2] - 24)
      /\ (maxValue \in { 1, 2, 4, 8 }) => AlphaError(i) = 0
      /\ Alpha(i)[1] > 0 /\ Alpha(i)[1] <= Pow2(Alpha(i)[2])
      /\ (At(values, i) = maxValue) => Alpha(i) = FloatOne

\* A histogram whose least frequent bin holds a third of the maximum.
C6_Witness ==
  /\ Built
  /\ visualizationMode = "opacity"
  /\ maxValue = 3
  /\ \E i \in BinIndices : At(values, i) = 1 /\ AlphaError(i) # 0
  /\ \E i \in BinIndices : At(values, i) = 3 /\ Alpha(i) = FloatOne

\* floor(t * maxValue) for the number t = k / Den, by its defining bounds.
FloorOf(k) == CHOOSE c \in 0..maxValue : c * Den <= k * maxValue /\ k * maxValue < (c + 1) * Den

\* The bins whose count lies between the two floors, both inclusive.
BinsBetween(lo, hi) == { i \in BinIndices : FloorOf(lo) <= At(values, i) /\ At(values, i) <= FloorOf(hi) }

Called == filterCall # <<>>
CallMin == filterCall[1].minThreshold
CallMax == filterCall[1].maxThreshold
CallResult == filterCall[1].result

\* C7: getFilteredData(0.0, 1.0) returns every bin: count is the number of
\* bins and filteredIndices is 0, 1, ..., values.length - 1.
C7_FullRangeSelectsAll ==
  (Called /\ CallMin = 0 /\ CallMax = Den) =>
    /\ CallResult.count = Len(values)
    /\ CallResult.filteredIndices = [ k \in 1..Len(values) |-> k - 1 ]

C7_Witness ==
  /\ Called /\ CallMin = 0 /\ CallMax = Den
  /\ Len(values) = 3
  /\ maxValue = 2
  /\ CallResult.count = 3

\* C8: getFilteredData(lo, hi) with lo <= hi in [0,1] returns exactly the
\* bins with floor(lo * maxValue) <= count <= floor(hi * maxValue); for
\* lo = hi = t these are the bins whose count is floor(t * maxValue).
C8_SelectsCountsBetweenFloors ==
  (Called /\ CallMin \in Numbers /\ CallMax \in Numbers /\ CallMin <= CallMax) =>
    /\ Range(CallResult.filteredIndices) = BinsBetween(CallMin, CallMax)
    /\ Len(CallResult.filteredIndices) = Cardinality(BinsBetween(CallMin, CallMax))
    /\ CallResult.count = Len(CallResult.filteredIndices)
    /\ (CallMin = CallMax) =>
         Range(CallResult.filteredIndices) = { i \in BinIndices : At(values, i) = FloorOf(CallMin) }

\* t = 1 / Den on a histogram with counts 1 and 3: the floor is 1, which
\* selects the bin of count 1 and leaves out the bin of count 3.
C8_Witness ==
  /\ Called /\ CallMin = 1 /\ CallMax = 1
  /\ FloorOf(1) = 1
  /\ maxValue = 3
  /\ Len(values) = 2
  /\ CallResult.count = 1
  /\ At(values, CallResult.filteredIndices[1]) = 1

\* C9: widening the range never removes a bin: every index returned for
\* (lo1, hi1) is returned for every (lo2, hi2) with lo2 <= lo1 <= hi1 <= hi2.
C9_WideningKeepsBins ==
  (Called /\ CallMin \in Numbers /\ CallMax \in Numbers /\ CallMin <= CallMax) =>
    \A lo2 \in Numbers, hi2 \in Numbers :
      (lo2 <= CallMin /\ CallMax <= hi2) =>
        Range(CallResult.filteredIndices) \subseteq Range(getFilteredData(lo2, hi2).filteredIndices)

C9_Witness ==
  /\ Called /\ CallMin = 1 /\ CallMax = 1
  /\ CallResult.count = 1
  /\ Len(values) = 2
  /\ getFilteredData(0, Den).count = 2

\* C10 as stated: getFilteredData exchanges its thresholds when min > max,
\* so (a, b) and (b, a) select the same bins for all a, b in [0,1].
C10_FilterSwapsThresholds ==
  Built =>
    \A a \in Numbers, b \in Numbers :
      getFilteredData(a, b).filteredIndices = getFilteredData(b, a).filteredIndices

HostFiltered == imageData # <<>> /\ minThreshold \in Numbers /\ maxThreshold \in Numbers

\* C10 amended: the host's filter effect, not getFilteredData, exchanges
\* the thresholds when min > max: the data it installs for controls (a, b)
\* is the data for (b, a), the bins between the floors of the smaller and
\* the larger threshold; getFilteredData itself given a > b returns only
\* the bins with floor(a * maxValue) <= count <= floor(b * maxValue).
C10_HostSwapsThresholds ==
  /\ HostFiltered =>
       /\ imageData[1] = FilterEffectData(maxThreshold, minThreshold)
       /\ Range(imageData[1].filteredIndices) =
            BinsBetween(MathMin(minThreshold, maxThreshold), MathMax(minThreshold, maxThreshold))
  /\ Built =>
       \A a \in Numbers, b \in Numbers :
         (a > b) => Range(getFilteredData(a, b).filteredIndices) = BinsBetween(a, b)

\* The controls hold min = 1.0 and max = 0.0 and the effect has installed
\* every bin, where getFilteredData(1.0, 0.0) returns none.
C10_Witness ==
  /\ HostFiltered
  /\ minThreshold = Den /\ maxThreshold = 0
  /\ Len(values) >= 2
  /\ imageData[1].count = Len(values)
  /\ getFilteredData(Den, 0).count = 0

HostFilteredNaN == imageData # <<>> /\ (isNaN(minThreshold) \/ isNaN(maxThreshold))

DefaultedMin == IF isNaN(minThreshold) THEN 0 ELSE minThreshold
DefaultedMax == IF isNaN(maxThreshold) THEN Den ELSE maxThreshold

ClusterCalled == clusterCall # <<>>
ClusterEntry == clusterCall[1].entry
ClusterEpsilon == clusterCall[1].args[1]
ClusterMinPoints == clusterCall[1].args[2]
ClusterReturned == ClusterCalled /\ clusterCall[1].result # <<>>
Clustering == clusterCall[1].result[1]

\* The bins the recorded call clusters, by their histogram index.
Clustered ==
  IF ClusterEntry = "dbscanClustering" THEN BinIndices
  ELSE IF ClusterEntry = "dbscanClusteringWithIndices" THEN Range(clusterCall[1].args[3])
  ELSE BinsBetween(clusterCall[1].args[3], clusterCall[1].args[4])

\* Every index the result reports: the clusters' member lists, then noise.
Reported(result) ==
  Flatten([ c \in 1..Len(result.clusters) |-> result.clusters[c].points ]) \o result.noise

\* C12: after a clustering run every clustered bin has exactly one final
\* label, which is not UNASSIGNED, and its index appears exactly once in
\* the clusters' member lists and the noise list taken together: in the
\* noise list when its label is NOISE, in the list of the cluster whose id
\* is its label otherwise.
C12_EveryBinLabelledOnce ==
  ClusterReturned =>
    LET result == Clustering
    IN /\ Range(Reported(result)) = Clustered
       /\ Len(Reported(result)) = Cardinality(Clustered)
       /\ \A b \in Clustered :
            /\ At(result.labels, b) # Unassigned
            /\ At(result.labels, b) = Noise <=> b \in Range(result.noise)
            /\ \A c \in 1..Len(result.clusters) :
                 At(result.labels, b) = result.clusters[c].id
                   <=> b \in Range(result.clusters[c].points)

\* dbscanClusteringWithIndices has clustered three of four bins into one
\* cluster of two and one noise point.
C12_Witness ==
  /\ ClusterReturned
  /\ ClusterEntry = "dbscanClusteringWithIndices"
  /\ Len(values) = 4
  /\ Cardinality(Clustered) = 3
  /\ Len(Clustering.clusters) = 1
  /\ Len(Clustering.clusters[1].points) = 2
  /\ Len(Clustering.noise) = 1

\* The squared Euclidean distance between the colours of bins i and j.
ColorDistance2(i, j) ==
  LET p == BinColor(i)
      q == BinColor(j)
  IN (p[1] - q[1]) * (p[1] - q[1]) + (p[2] - q[2]) * (p[2] - q[2])
       + (p[3] - q[3]) * (p[3] - q[3])

\* The other clustered bins within distance epsilon of bin i.
NearOf(i, epsilon) ==
  { j \in Clustered \ {i} : epsilon >= 0 /\ ColorDistance2(i, j) <= epsilon * epsilon }

\* A core point has at least minPoints other clustered bins within epsilon.
IsCore(i, epsilon, minPoints) == Cardinality(NearOf(i, epsilon)) >= minPoints

\* C13: a clustered point is NOISE in the result exactly when it has fewer
\* than minPoints other points within distance epsilon and none of the
\* points within epsilon of it is a core point; every other point is a
\* member of a cluster.
C13_NoiseIffNotDensityReachable ==
  ClusterReturned =>
    \A b \in Clustered :
      LET unreachable == /\ ~IsCore(b, ClusterEpsilon, ClusterMinPoints)
                         /\ \A j \in NearOf(b, ClusterEpsilon) :
                              ~IsCore(j, ClusterEpsilon, ClusterMinPoints)
      IN /\ unreachable <=> At(Clustering.labels, b) = Noise
         /\ unreachable <=> b \in Range(Clustering.noise)
         /\ ~unreachable <=> \E c \in 1..Len(Clustering.clusters) :
                               b \in Range(Clustering.clusters[c].points)

\* dbscanClustering(255, 2) on four bins: bin 0 is not a core point, is
\* visited first and is in the cluster of its core neighbour, and one bin
\* is noise.
C13_Witness ==
  /\ ClusterReturned
  /\ ClusterEntry = "dbscanClustering"
  /\ ClusterEpsilon = 255 /\ ClusterMinPoints = 2
  /\ Len(values) = 4
  /\ ~IsCore(0, 255, 2)
  /\ At(Clustering.labels, 0) = 0
  /\ Len(Clustering.noise) = 1

\* C14: for fixed points and minPoints, raising epsilon never adds a noise
\* point: for eps1 <= eps2 the noise list at eps2 is contained in the noise
\* list at eps1, so the noise count does not grow.
C14_NoiseShrinksWithEpsilon ==
  (ClusterReturned /\ ClusterEntry # "dbscanClusteringFiltered") =>
    \A eps2 \in Epsilons :
      (ClusterEpsilon <= eps2) =>
        LET wider == IF ClusterEntry = "dbscanClustering"
                     THEN dbscanClustering(eps2, ClusterMinPoints)
                     ELSE dbscanClusteringWithIndices(eps2, ClusterMinPoints,
                                                      clusterCall[1].args[3])
        IN /\ Range(wider.noise) \subseteq Range(Clustering.noise)
           /\ Len(wider.noise) <= Len(Clustering.noise)

\* dbscanClustering(1, 2) has labelled all four bins noise, where epsilon =
\* 255 leaves one noise point and epsilon = 361 none.
C14_Witness ==
  /\ ClusterReturned
  /\ ClusterEntry = "dbscanClustering"
  /\ ClusterEpsilon = 1 /\ ClusterMinPoints = 2
  /\ Len(Clustering.noise) = 4
  /\ Len(dbscanClustering(255, 2).noise) = 1
  /\ Len(dbscanClustering(361, 2).noise) = 0

\* C15: when minPoints > 1, a point farther than epsilon from every other
\* clustered point is NOISE; when every clustered point is so isolated the
\* result has no cluster and lists every point as noise.
C15_IsolatedPointIsNoise ==
  (ClusterReturned /\ ClusterMinPoints > 1) =>
    /\ \A b \in Clustered :
         (NearOf(b, ClusterEpsilon) = {}) =>
           /\ At(Clustering.labels, b) = Noise
           /\ b \in Range(Clustering.noise)
    /\ (\A b \in Clustered : NearOf(b, ClusterEpsilon) = {}) =>
         /\ Clustering.clusters = <<>>
         /\ Range(Clustering.noise) = Clustered
         /\ Len(Clustering.noise) = Cardinality(Clustered)

\* dbscanClustering(1, 2) on four bins that are pairwise at least 255
\* apart: no cluster, four noise points.
C15_Witness ==
  /\ ClusterReturned
  /\ ClusterEntry = "dbscanClustering"
  /\ ClusterEpsilon = 1 /\ ClusterMinPoints = 2
  /\ Len(values) = 4
  /\ \A i \in BinIndices, j \in BinIndices : (i # j) => ColorDistance2(i, j) >= 255 * 255
  /\ Clustering.clusters = <<>>
  /\ Clustering.noise = << 0, 1, 2, 3 >>

\* C16: when epsilon is at least the largest pairwise distance among the
\* n >= 2 clustered points and minPoints <= n - 1, the result is exactly
\* one cluster holding all n points, and no noise.
C16_WideEpsilonGivesOneCluster ==
  LET n == Cardinality(Clustered)
  IN (/\ ClusterReturned
      /\ n >= 2
      /\ ClusterMinPoints <= n - 1
      /\ ClusterEpsilon >= 0
      /\ \A i \in Clustered, j \in Clustered :
           ColorDistance2(i, j) <= ClusterEpsilon * ClusterEpsilon) =>
       /\ Len(Clustering.clusters) = 1
       /\ Range(Clustering.clusters[1].points) = Clustered
       /\ Len(Clustering.clusters[1].points) = n
       /\ Clustering.noise = <<>>

\* dbscanClustering(500, 1) on four bins: one cluster of all four.
C16_Witness ==
  /\ ClusterReturned
  /\ ClusterEntry = "dbscanClustering"
  /\ ClusterEpsilon = 500 /\ ClusterMinPoints = 1
  /\ Len(values) = 4
  /\ Len(Clustering.clusters) = 1
  /\ Clustering.clusters[1].points = << 0, 1, 2, 3 >>
  /\ Clustering.noise = <<>>

\* The sum of f over the members of a finite set of bins.
RECURSIVE SumOver(_, _)
SumOver(S, f) ==
  IF S = {} THEN 0
  ELSE LET b == CHOOSE x \in S : TRUE
       IN f[b] + SumOver(S \ {b}, f)

BinCount == [ b \in BinIndices |-> At(values, b) ]

\* Channel k (0, 1, 2) of each bin's colour times the bin's count.
WeightedChannel(k) == [ b \in BinIndices |-> BinColor(b)[k + 1] * At(values, b) ]

\* C17: for every cluster of a result, totalFrequency is the sum of the
\* members' counts and is positive, each centroid coordinate is the sum of
\* the members' coordinate times count divided by totalFrequency, and it
\* lies between the smallest and the largest value of that coordinate among
\* the members.
C17_CentroidIsWeightedMean ==
  ClusterReturned =>
    \A c \in 1..Len(Clustering.clusters) :
      LET cluster == Clustering.clusters[c]
          members == Range(cluster.points)
      IN /\ cluster.totalFrequency = SumOver(members, BinCount)
         /\ cluster.totalFrequency > 0
         /\ \A k \in 0..2 :
              LET num == cluster.centroid[k + 1][1]
                  den == cluster.centroid[k + 1][2]
              IN /\ den > 0
                 /\ num * cluster.totalFrequency = den * SumOver(members, WeightedChannel(k))
                 /\ \E b \in members : BinColor(b)[k + 1] * den <= num
                 /\ \E b \in members : num <= BinColor(b)[k + 1] * den

\* A cluster of three bins with counts 1, 2 and 1: black, red twice and
\* yellow have the centroid (765 / 4, 255 / 4, 0).
C17_Witness ==
  /\ ClusterReturned
  /\ Len(Clustering.clusters) = 1
  /\ Len(Clustering.clusters[1].points) = 3
  /\ Clustering.clusters[1].totalFrequency = 4
  /\ Clustering.clusters[1].centroid = << <<765, 4>>, <<255, 4>>, <<0, 1>> >>

\* C18: dbscanClusteringWithIndices reports in histogram indices: labels
\* has one entry per bin, every entry of the clusters' member lists and of
\* the noise list is an entry of filteredIndices, the label at
\* filteredIndices[k] is the label the run gave filtered point k, and every
\* bin that is not in filteredIndices carries -3.
C18_FilteredResultUsesOriginalIndices ==
  (ClusterReturned /\ ClusterEntry = "dbscanClusteringWithIndices") =>
    LET filteredIndices == clusterCall[1].args[3]
        n == Len(filteredIndices)
        run == DbscanLoop(0, [ k \in 1..n |-> Unassigned ], 0,
                 [ k \in 1..n |-> getFilteredNeighbors(k - 1, ClusterEpsilon, filteredIndices) ],
                 ClusterMinPoints)
    IN /\ Len(Clustering.labels) = Len(values)
       /\ Range(Reported(Clustering)) \subseteq Range(filteredIndices)
       /\ \A k \in 1..n : At(Clustering.labels, filteredIndices[k]) = run.labels[k]
       /\ \A k \in 1..n : At(Clustering.labels, filteredIndices[k]) # FilteredOut
       /\ \A b \in BinIndices \ Range(filteredIndices) : At(Clustering.labels, b) = FilteredOut

\* dbscanClusteringWithIndices(500, 1, [1, 3]) on four bins: bins 1 and 3
\* form cluster 0 and bins 0 and 2 carry -3.
C18_Witness ==
  /\ ClusterReturned
  /\ ClusterEntry = "dbscanClusteringWithIndices"
  /\ clusterCall[1].args[3] = << 1, 3 >>
  /\ Len(values) = 4
  /\ Clustering.labels = << FilteredOut, 0, FilteredOut, 0 >>
  /\ Clustering.clusters[1].points = << 1, 3 >>

InvalidParameters == ClusterEpsilon <= 0 \/ ClusterMinPoints < 1

\* C19: a clustering call with invalid parameters (epsilon <= 0 or
\* minPoints < 1) is rejected with an error: it returns no result.
C19_InvalidParametersRejected ==
  (ClusterCalled /\ InvalidParameters) => clusterCall[1].result = <<>>

\* The result every entry point returns for no clustered bin: no cluster,
\* no noise, and labels either empty or -3 for every bin.
EmptyClustering ==
  [ clusters |-> <<>>,
    noise |-> <<>>,
    labels |-> IF ClusterEntry = "dbscanClustering" THEN <<>>
               ELSE [ k \in 1..Len(values) |-> FilteredOut ] ]

\* The data getFilteredData returns when it selects no bin.
EmptyFilteredData ==
  [ positions |-> <<>>, colors |-> <<>>, sizes |-> <<>>, count |-> 0, filteredIndices |-> <<>> ]

\* C20: with no bin, or with a range or index list that selects no bin,
\* construction, getFilteredData and each clustering entry point return
\* empty results and do not throw: the histogram has no bin and maxValue
\* 0, the filtered data has count 0 and no index, and the clustering result
\* has no cluster, no noise and no cluster id among its labels.
C20_EmptyInputsGiveEmptyResults ==
  /\ (Built /\ PixelCount = 0) =>
       /\ nonZeroCount = 0 /\ maxValue = 0
       /\ values = <<>> /\ positions = <<>> /\ colors = <<>>
       /\ sizes = <<>> /\ pixelSources = <<>>
       /\ \A lo \in Numbers, hi \in Numbers : getFilteredData(lo, hi) = EmptyFilteredData
  /\ (ClusterCalled /\ Clustered = {}) =>
       /\ ClusterReturned
       /\ Clustering = EmptyClustering
       /\ \A k \in 1..Len(Clustering.labels) : Clustering.labels[k] < 0
       /\ (ClusterEntry = "dbscanClusteringFiltered") =>
            getFilteredData(clusterCall[1].args[3], clusterCall[1].args[4]) = EmptyFilteredData

\* dbscanClusteringFiltered(500, 1, 0.0, 0.0) on three bins: the range
\* selects none of them and the result is empty, with -3 for every bin.
C20_Witness ==
  /\ ClusterReturned
  /\ ClusterEntry = "dbscanClusteringFiltered"
  /\ clusterCall[1].args = << 500, 1, 0, 0 >>
  /\ Len(values) = 3
  /\ Clustered = {}
  /\ Clustering.clusters = <<>>
  /\ Clustering.labels = << FilteredOut, FilteredOut, FilteredOut >>

\* ------------------------------------------------------------ frame claims
\* C21: once the instance is built, no call of getFilteredData,
\* dbscanClustering, dbscanClusteringWithIndices or
\* dbscanClusteringFiltered changes values, positions, colors, sizes,
\* pixelSources, maxValue or nonZeroCount: every step taken from a built
\* instance leaves them as they were, and what a call returns is held
\* apart from them.
C21_HistogramImmutable ==
  [][ Built =>
        /\ values' = values
        /\ positions' = positions
        /\ colors' = colors
        /\ sizes' = sizes
        /\ pixelSources' = pixelSources
        /\ maxValue' = maxValue
        /\ nonZeroCount' = nonZeroCount ]_vars

\* A filter call that dropped bins and a clustering call have both
\* returned, and the three bins are still there.
C21_Witness ==
  /\ Built
  /\ values = << 1, 2, 1 >>
  /\ Called
  /\ CallResult.count = 1
  /\ ClusterCalled
  /\ Len(positions) = 9

\* C23: in the result of a run, two core points within epsilon of each
\* other have the same cluster id, and every member of a cluster that is
\* not a core point is within epsilon of a core point of that cluster.
C23_ClustersAreDensityConnected ==
  ClusterReturned =>
    LET labels == Clustering.labels
        near == [ b \in Clustered |-> NearOf(b, ClusterEpsilon) ]
        core == { b \in Clustered : IsCore(b, ClusterEpsilon, ClusterMinPoints) }
    IN /\ \A b \in core : At(labels, b) >= 0
       /\ \A b \in core : \A j \in core \cap near[b] :
            At(labels, b) = At(labels, j)
       /\ \A b \in Clustered \ core :
            At(labels, b) >= 0
              => \E j \in core \cap near[b] : At(labels, j) = At(labels, b)

\* dbscanClustering(361, 3) on four bins: two core points within epsilon
\* of each other share cluster 0 with two border points, of which one was
\* visited first.
C23_Witness ==
  /\ ClusterReturned
  /\ ClusterEntry = "dbscanClustering"
  /\ ClusterEpsilon = 361 /\ ClusterMinPoints = 3
  /\ Len(values) = 4
  /\ Cardinality({ b \in Clustered : IsCore(b, 361, 3) }) = 2
  /\ ~IsCore(0, 361, 3)
  /\ \A b \in Clustered : At(Clustering.labels, b) = 0

\* C26: getFilteredData returns filteredIndices strictly increasing with
\* count equal to its length, and the three positions, four colors and one
\* size of every returned slot i are those of the histogram's bin
\* filteredIndices[i].
C26_FilteredSlotsCopyTheirBins ==
  Called =>
    LET r == CallResult
        bin(i) == r.filteredIndices[i + 1]
    IN /\ r.count = Len(r.filteredIndices)
       /\ \A i \in 1..Len(r.filteredIndices) : r.filteredIndices[i] \in BinIndices
       /\ \A i \in 1..(Len(r.filteredIndices) - 1) :
            r.filteredIndices[i] < r.filteredIndices[i + 1]
       /\ Len(r.positions) = 3 * r.count
       /\ Len(r.colors) = 4 * r.count
       /\ Len(r.sizes) = r.count
       /\ \A i \in 0..(r.count - 1) :
            /\ \A k \in 0..2 : At(r.positions, i * 3 + k) = At(positions, bin(i) * 3 + k)
            /\ \A k \in 0..3 : At(r.colors, i * 4 + k) = At(colors, bin(i) * 4 + k)
            /\ At(r.sizes, i) = At(sizes, bin(i))

\* A call has returned two bins that are not the first two: slot 0 holds
\* bin 1 and the slots differ from the bins of the same position.
C26_Witness ==
  /\ Called
  /\ CallResult.count = 2
  /\ CallResult.filteredIndices[1] = 1
  /\ Len(values) >= 3
  /\ At(CallResult.positions, 0) # At(positions, 0)
  /\ At(CallResult.sizes, 0) # At(sizes, 0)

\* The list of bins the recorded call clusters, in the order it visits them.
ClusteredList ==
  IF ClusterEntry = "dbscanClustering" THEN Indices(Len(values))
  ELSE IF ClusterEntry = "dbscanClusteringWithIndices" THEN clusterCall[1].args[3]
  ELSE FilterLoop(0, FloorScaled(clusterCall[1].args[3]), FloorScaled(clusterCall[1].args[4]), <<>>)

\* The number of cluster ids the main loop of the recorded call issues.
IssuedIds ==
  LET n == Len(ClusteredList)
      neighborsOf == [ k \in 1..n |->
                         IF ClusterEntry = "dbscanClustering"
                         THEN getNeighbors(k - 1, ClusterEpsilon)
                         ELSE getFilteredNeighbors(k - 1, ClusterEpsilon, ClusteredList) ]
  IN DbscanLoop(0, [ k \in 1..n |-> Unassigned ], 0, neighborsOf, ClusterMinPoints).clusterId

\* C27: the clusters of a result are non-empty and numbered contiguously
\* in discovery order: clusters[k].id is k, clusters.length is the number
\* of cluster ids the main loop issued, and every label that is at least 0
\* is below clusters.length.
C27_ClusterIdsContiguous ==
  ClusterReturned =>
    LET result == Clustering
    IN /\ \A k \in 0..(Len(result.clusters) - 1) :
            /\ At(result.clusters, k).id = k
            /\ At(result.clusters, k).points # <<>>
       /\ Len(result.clusters) = IssuedIds
       /\ \A b \in BinIndices :
            At(result.labels, b) >= 0 => At(result.labels, b) < Len(result.clusters)

\* dbscanClustering(255, 1) on four bins visited cyan first: cyan is noise,
\* the three others are cluster 0; with minPoints 0 cyan is a cluster too,
\* so a noise point before the first cluster and two clusters are among
\* the cases.
C27_Witness ==
  /\ ClusterReturned
  /\ ClusterEntry = "dbscanClustering"
  /\ Len(values) = 4
  /\ At(Clustering.labels, 0) = Noise
  /\ Len(Clustering.clusters) = 1
  /\ Clustering.clusters[1].id = 0
  /\ Len(Clustering.clusters[1].points) = 3

\* C28: dbscanClustering(epsilon, minPoints) returns the clusters, noise
\* and labels that dbscanClusteringWithIndices(epsilon, minPoints,
\* [0..n-1]) returns, and dbscanClusteringFiltered(epsilon, minPoints, lo,
\* hi) those that dbscanClusteringWithIndices returns for the
\* filteredIndices of getFilteredData(lo, hi).
C28_EntryPointsAgree ==
  ClusterReturned =>
    LET Same(a, b) == /\ a.clusters = b.clusters
                      /\ a.noise = b.noise
                      /\ a.labels = b.labels
    IN /\ ClusterEntry = "dbscanClustering" =>
            Same(Clustering,
                 dbscanClusteringWithIndices(ClusterEpsilon, ClusterMinPoints,
                                             Indices(Len(values))))
       /\ ClusterEntry = "dbscanClusteringFiltered" =>
            Same(Clustering,
                 dbscanClusteringWithIndices(ClusterEpsilon, ClusterMinPoints,
                   getFilteredData(clusterCall[1].args[3],
                                   clusterCall[1].args[4]).filteredIndices))

\* dbscanClusteringFiltered has clustered the bins of a range that leaves
\* the first of three bins out: the two others are one cluster.
C28_Witness ==
  /\ ClusterReturned
  /\ ClusterEntry = "dbscanClusteringFiltered"
  /\ Len(values) = 3
  /\ Clustered = { 1, 2 }
  /\ Len(Clustering.clusters) = 1
  /\ Clustering.clusters[1].points = << 1, 2 >>
  /\ Clustering.labels = << FilteredOut, 0, 0 >>

\* --------------------------------------------------------- run claims
Running == dbscanRun # <<>>
RunAt == dbscanRun[1].at
RunLabels == dbscanRun[1].labels

\* C24: during a run a point's label changes only from UNASSIGNED to
\* NOISE, from UNASSIGNED to a cluster id, or from NOISE to a cluster id:
\* a point that has a cluster id keeps it, no point returns to UNASSIGNED,
\* and the step that adopts a NOISE point as a border point puts nothing
\* on the queue.
C24_LabelsOnlyAdvance ==
  [][ (Running /\ dbscanRun' # <<>>) =>
        LET old == dbscanRun[1]
            new == dbscanRun'[1]
        IN /\ Len(new.labels) = Len(old.labels)
           /\ \A p \in 1..Len(old.labels) :
                \/ new.labels[p] = old.labels[p]
                \/ old.labels[p] = Unassigned /\ new.labels[p] = Noise
                \/ old.labels[p] = Unassigned /\ new.labels[p] >= 0
                \/ old.labels[p] = Noise /\ new.labels[p] >= 0
           /\ \A p \in 1..Len(old.labels) :
                (old.labels[p] = Noise /\ new.labels[p] >= 0)
                  => /\ old.queue # <<>>
                     /\ Head(old.queue) = p - 1
                     /\ new.queue = Tail(old.queue)
                     /\ new.expanded = old.expanded ]_vars

\* A run with minPoints 2 over four bins has ended: point 0, visited first
\* with one neighbour, was marked noise and then adopted by cluster 0, and
\* its neighbours were never queued; another point stayed noise.
C24_Witness ==
  /\ Running
  /\ RunAt = "done"
  /\ dbscanRun[1].minPoints = 2
  /\ Len(RunLabels) = 4
  /\ Len(RunNeighbors(dbscanRun[1], 0)) = 1
  /\ At(RunLabels, 0) = 0
  /\ 0 \notin Range(dbscanRun[1].expanded)
  /\ Noise \in Range(RunLabels)

\* C25: every run over a finite set of points ends, whatever epsilon and
\* minPoints are: the queue empties because a point's neighbours are put
\* on it at most once, when the point goes from UNASSIGNED to a cluster
\* id, and the for loop passes each index once; the run then returns the
\* result of its entry point.
C25_RunTerminates ==
  /\ Running ~> (Running /\ RunAt = "done")
  /\ [](Running =>
          LET r == dbscanRun[1]
          IN /\ \A a \in 1..Len(r.expanded), b \in 1..Len(r.expanded) :
                  a # b => r.expanded[a] # r.expanded[b]
             /\ \A a \in 1..Len(r.expanded) : At(r.labels, r.expanded[a]) >= 0
             /\ r.i <= Len(r.labels)
             /\ r.at = "done" =>
                  /\ r.queue = <<>>
                  /\ ClusterReturned
                  /\ Clustering =
                       IF r.entry = "dbscanClustering"
                       THEN dbscanClustering(r.epsilon, r.minPoints)
                       ELSE dbscanClusteringWithIndices(r.epsilon, r.minPoints,
                                                        r.filteredIndices))
  /\ [][ (Running /\ dbscanRun' # <<>>) =>
           LET old == dbscanRun[1]
               new == dbscanRun'[1]
           IN /\ new.i \in { old.i, old.i + 1 }
              /\ new.expanded # old.expanded =>
                   \E p \in 1..Len(old.labels) :
                     /\ new.expanded = Append(old.expanded, p - 1)
                     /\ old.labels[p] = Unassigned
                     /\ new.labels[p] >= 0 ]_vars

\* A run with epsilon 500 and minPoints 0 over four bins has ended: every
\* point was on the queue three times, the neighbours of each were pushed
\* once, and the for loop is at index 4.
C25_Witness ==
  /\ Running
  /\ RunAt = "done"
  /\ dbscanRun[1].epsilon = 500
  /\ dbscanRun[1].minPoints = 0
  /\ Len(RunLabels) = 4
  /\ Len(dbscanRun[1].expanded) = 4
  /\ dbscanRun[1].i = 4
  /\ dbscanRun[1].queue = <<>>

C22_ResultOfInstalledHistogram ==
  /\ clusterResult # <<>> => clusterResult[1].instance = pixelData
  /\ appClusterResult # <<>> => appClusterResult[1].instance = pixelData

\* The filtered data and the cluster result the visualization holds are both
\* of the installed instance and of the same filter range.
ClusterResultFresh ==
  /\ tristogramInstance
  /\ imageData # <<>>
  /\ clusterResult # <<>>
  /\ imageData[1] = FilterEffectData(minThreshold, maxThreshold)
  /\ clusterResult[1].instance = pixelData
  /\ clusterResult[1].filteredIndices = imageData[1].filteredIndices

\* The cluster result with its labels read through filteredIndices: the
\* label at slot i is the label of original bin filteredIndices[i].
OwnBinLabels(data, result) ==
  [ result EXCEPT !.labels =
      [ slot \in 1..Len(data.filteredIndices) |->
          At(result.labels, At(data.filteredIndices, slot - 1)) ] ]

\* C29: when the host colours the displayed points by cluster, or highlights
\* a selected cluster, after clustering a filtered view, slot i is coloured
\* by the label and the count of its own original bin filteredIndices[i].
C29_SlotColouredByOwnBin ==
  ClusterResultFresh =>
    LET data == imageData[1]
        result == ClusterResultOf(clusterResult[1])
        own == OwnBinLabels(data, result)
        shown == generateClusterColors(data, result)
        expected == generateClusterColors(data, own)
    IN /\ \A slot \in 1..Len(data.filteredIndices) :
            /\ \A k \in 1..3 :
                 shown[4 * (slot - 1) + k] = expected[4 * (slot - 1) + k]
            /\ shown[4 * slot] =
                 Fround(At(values, At(data.filteredIndices, slot - 1)), maxValue)
       /\ \A selectedCluster \in 0..(Len(result.clusters) - 1) :
            generateSelectedClusterColors(data, result, selectedCluster)
              = generateSelectedClusterColors(data, own, selectedCluster)

====
